---- MODULE Spec2Model ----
(***************************************************************************)
(* A model of pydarn's Borealis I/O layer (pydarn/io/borealis/borealis.py):*)
(* the conformance checker (BorealisUtilities), the HDF5 record reader and *)
(* writer (BorealisRead, BorealisWrite) and the converter to DARN DMap      *)
(* records (BorealisConvert and its two entry points).                      *)
(*                                                                          *)
(* A record is a function from field names to values.  A value is          *)
(* [kind, ty, val]: kind "scalar" is a numpy scalar of type ty, kind       *)
(* "array" a numpy.ndarray of dtype ty, kind "native" a plain Python       *)
(* object (it has no dtype attribute).                                      *)
(***************************************************************************)
EXTENDS Integers, Sequences, FiniteSets, TLC

VARIABLES
    \* --- conformance checker, exercised on one record under edit
    ck_type,       \* the record type whose schema the checks are run against
    ck_name,       \* the record name handed to the checks
    ck_record,     \* the record
    ck_altered,    \* history: the fields whose type an edit has changed
    ck_nonarray,   \* history: the datasets an edit has given a non-array value
    ck_edited,     \* history: the fields that differ from the conformant record
    ck_result,     \* outcome of the last check run on ck_record
    \* --- the HDF5 file, a BorealisRead and a BorealisWrite object on it
    file,          \* the container: whether it exists, and its groups
    rd,            \* BorealisRead: _group_names, _current_record_name, _records
    rd_pc,         \* "closed", "idle", or "reading" inside read_file
    rd_call,       \* the running read_file call: type, loop position, and
                   \* (history) the records before the call
    rd_result,     \* how the last reader call ended
    rd_fresh,      \* history: the reader was opened on what the last
                   \* completed write_file call left, unchanged since
    wr,            \* BorealisWrite: borealis_records, _group_names, cursor
    wr_pc,         \* "idle", or "writing" inside write_file
    wr_call,       \* the running write_file call: type, loop position, and
                   \* (history) the names serialized by the call, in order
    wr_result,     \* how the last writer call ended
    \* --- a Borealis file to convert, and a BorealisConvert object on it
    cv_file,       \* the input file: its path and its groups
    cv,            \* BorealisConvert: filename, _origin_filetype,
                   \* _borealis_records, _group_names, _dmap_records
    cv_result,     \* how the last converter call ended
    cv_io          \* what the last converter call did outside the object:
                   \* whether it read the input file, and what it handed
                   \* to DarnWrite

ckVars == <<ck_type, ck_name, ck_record, ck_altered, ck_nonarray, ck_edited,
           ck_result>>

ioVars == <<file, rd, rd_pc, rd_call, rd_result, rd_fresh,
           wr, wr_pc, wr_call, wr_result>>

cvVars == <<cv_file, cv, cv_result, cv_io>>

vars == <<ckVars, ioVars, cvVars>>

----------------------------------------------------------------------------
(* Bounds of the model *)

\* how many fields of the record under edit may differ from the conformant one
MaxEdits == 2

\* how many records a file or a record collection holds at most
MaxRecords == 2

----------------------------------------------------------------------------
(* Generic helpers *)

Range(f) == {f[x] : x \in DOMAIN f}

\* F applied to the value of e, which is computed once
Once(e, F(_)) == CHOOSE y \in {F(x) : x \in {e}} : TRUE

\* The subsequence of s whose elements satisfy membership in S
RECURSIVE SelectIn(_, _)
SelectIn(s, S) ==
    IF s = <<>> THEN <<>>
    ELSE IF Head(s) \in S THEN <<Head(s)>> \o SelectIn(Tail(s), S)
         ELSE SelectIn(Tail(s), S)

----------------------------------------------------------------------------
(* Schema registry: pydarn.borealis_formats (BorealisBfiq, BorealisRawacf,  *)
(* BorealisAntennasIq, BorealisRawrf).  Each format has a dict of numpy     *)
(* scalar types for its attributes (single_element_types) and a dict of    *)
(* numpy dtypes for its datasets (array_dtypes).  Only the fields the      *)
(* converter reads are listed.                                              *)

Filetypes == {"bfiq", "rawacf", "antennas_iq", "rawrf"}

SingleElementTypes ==
  [ft \in Filetypes |->
    CASE ft = "bfiq" ->
           [borealis_git_hash |-> "str", station |-> "str",
            tau_spacing |-> "uint32", tx_pulse_len |-> "uint32",
            num_sequences |-> "int64",
            data_normalization_factor |-> "float64"]
      [] ft = "rawacf" ->
           [borealis_git_hash |-> "str", station |-> "str",
            tau_spacing |-> "uint32", tx_pulse_len |-> "uint32",
            data_normalization_factor |-> "float64"]
      [] ft = "antennas_iq" ->
           [borealis_git_hash |-> "str", station |-> "str",
            num_sequences |-> "int64"]
      [] ft = "rawrf" ->
           [borealis_git_hash |-> "str", num_sequences |-> "int64"]]

ArrayDtypes ==
  [ft \in Filetypes |->
    CASE ft = "bfiq" ->
           [beam_nums |-> "uint32", beam_azms |-> "float64",
            blanked_samples |-> "uint32", pulses |-> "uint32",
            pulse_phase_offset |-> "float32", data_dimensions |-> "uint32",
            data |-> "complex64"]
      [] ft = "rawacf" ->
           [beam_nums |-> "uint32", beam_azms |-> "float64",
            blanked_samples |-> "uint32", pulses |-> "uint32",
            lags |-> "uint32", correlation_dimensions |-> "uint32",
            main_acfs |-> "complex64", intf_acfs |-> "complex64",
            xcfs |-> "complex64"]
      [] ft = "antennas_iq" ->
           [pulses |-> "uint32", data_dimensions |-> "uint32",
            data |-> "complex64"]
      [] ft = "rawrf" ->
           [data_dimensions |-> "uint32", data |-> "complex64"]]

single_element_types(ft) == SingleElementTypes[ft]
array_dtypes(ft) == ArrayDtypes[ft]

\* Field names no format declares (a producer's additions)
UndeclaredFields == {"extra_a", "extra_b"}

Dtypes == {"str", "uint32", "int64", "float32", "float64", "complex64"}

\* The keys of a dict in iteration (insertion) order: the formats list their
\* fields alphabetically.
FieldOrder ==
    <<"beam_azms", "beam_nums", "blanked_samples",
      "borealis_git_hash", "correlation_dimensions", "data",
      "data_dimensions", "data_normalization_factor", "extra_a", "extra_b",
      "intf_acfs", "lags", "main_acfs", "num_sequences",
      "pulse_phase_offset", "pulses", "station", "tau_spacing",
      "tx_pulse_len", "xcfs">>

KeysInOrder(d) == SelectIn(FieldOrder, DOMAIN d)

----------------------------------------------------------------------------
(* Values *)

Scalar(ty, val) == [kind |-> "scalar", ty |-> ty, val |-> val]
Array(ty, val)  == [kind |-> "array", ty |-> ty, val |-> val]
Native(val)     == [kind |-> "native", ty |-> "builtin", val |-> val]

\* Python's type(value): a numpy scalar's class is its dtype's scalar type,
\* an array's class is numpy.ndarray, a plain object's class is a builtin.
TypeOf(v) ==
    CASE v.kind = "scalar" -> v.ty
      [] v.kind = "array"  -> "np.ndarray"
      [] OTHER             -> "builtin"

\* value.dtype.type: defined for numpy arrays and numpy scalars only
HasDtype(v) == v.kind \in {"scalar", "array"}

----------------------------------------------------------------------------
(* BorealisUtilities *)

\* Outcome of a check: "ok", the exception it raised, or, before any call, "none".
\* fields is the key set of a missing/extra-field error; mapping is the
\* {key: description} dict of a type error, as <<key, form, type>> triples.
Outcome(kind, name, fields, mapping) ==
    [kind |-> kind, record_name |-> name, fields |-> fields, mapping |-> mapping]

NoOutcome == Outcome("none", "", {}, {})
Ok(name)  == Outcome("ok", name, {}, {})

\* set(dict1) - set(dict2)
dict_key_diff(dict1, dict2) == dict1 \ dict2

\* A variant that keeps the first dict's keys only
dict_list2set_first(dict_list) ==
    IF dict_list = <<>> THEN {} ELSE DOMAIN Head(dict_list)

\* set.union(*[set(dic) for dic in dict_list])
RECURSIVE dict_list2set(_)
dict_list2set(dict_list) ==
    IF dict_list = <<>> THEN {}
    ELSE DOMAIN Head(dict_list) \cup dict_list2set(Tail(dict_list))

\* The loop of missing_field_check over the schema fragments
RECURSIVE missing_fields_loop(_, _, _)
missing_fields_loop(file_struct_list, record, missing_fields) ==
    IF file_struct_list = <<>> THEN missing_fields
    ELSE LET diff_fields == dict_key_diff(DOMAIN Head(file_struct_list),
                                          DOMAIN record)
         IN  missing_fields_loop(
                 Tail(file_struct_list), record,
                 IF Cardinality(diff_fields) # 0
                 THEN missing_fields \cup diff_fields
                 ELSE missing_fields)

\* A variant that looks at the first schema fragment only
missing_field_check_first_fragment(file_struct_list, record, record_name) ==
    LET missing_fields ==
            missing_fields_loop(<<Head(file_struct_list)>>, record, {})
    IN  IF Cardinality(missing_fields) > 0
        THEN Outcome("BorealisFieldMissingError", record_name,
                     missing_fields, {})
        ELSE Ok(record_name)

missing_field_check(file_struct_list, record, record_name) ==
    LET missing_fields == missing_fields_loop(file_struct_list, record, {})
    IN  IF Cardinality(missing_fields) > 0
        THEN Outcome("BorealisFieldMissingError", record_name,
                     missing_fields, {})
        ELSE Ok(record_name)

extra_field_check(file_struct_list, record, record_name) ==
    LET file_struct  == dict_list2set(file_struct_list)
        extra_fields == dict_key_diff(DOMAIN record, file_struct)
    IN  IF Cardinality(extra_fields) > 0
        THEN Outcome("BorealisExtraFieldError", record_name, extra_fields, {})
        ELSE Ok(record_name)

\* The first comprehension of incorrect_types_check: the attributes whose
\* type(record[param]) differs from the declared type
attribute_mismatches(attributes_type_dict, record) ==
    {<<param, "scalar", attributes_type_dict[param]>> :
        param \in {p \in DOMAIN attributes_type_dict :
                      TypeOf(record[p]) # attributes_type_dict[p]}}

\* A variant in which the dataset pass is left out
dataset_mismatches_none(datasets_type_dict, record) == {}

\* The second comprehension: the datasets whose record[param].dtype.type
\* differs from the declared dtype
dataset_mismatches(datasets_type_dict, record) ==
    {<<param, "np.ndarray of", datasets_type_dict[param]>> :
        param \in {p \in DOMAIN datasets_type_dict :
                      record[p].ty # datasets_type_dict[p]}}

\* The first dataset, in iteration order, whose lookup or .dtype fails
RECURSIVE first_bad_dataset(_, _)
first_bad_dataset(keys, record) ==
    IF keys = <<>> THEN ""
    ELSE IF Head(keys) \notin DOMAIN record \/ ~HasDtype(record[Head(keys)])
         THEN Head(keys)
         ELSE first_bad_dataset(Tail(keys), record)

incorrect_types_check(attributes_type_dict, datasets_type_dict, record, record_name) ==
    IF \E p \in DOMAIN attributes_type_dict : p \notin DOMAIN record
    THEN Outcome("KeyError", record_name, {}, {})
    ELSE LET bad == first_bad_dataset(KeysInOrder(datasets_type_dict), record)
         IN  IF bad # ""
             THEN IF bad \notin DOMAIN record
                  THEN Outcome("KeyError", record_name, {}, {})
                  ELSE Outcome("AttributeError", record_name, {}, {})
             ELSE LET incorrect_types ==
                          attribute_mismatches(attributes_type_dict, record)
                          \cup dataset_mismatches(datasets_type_dict, record)
                  IN  IF Cardinality(incorrect_types) > 0
                      THEN Outcome("BorealisDataFormatTypeError", record_name,
                                   {}, incorrect_types)
                      ELSE Ok(record_name)

\* all_format_fields = [attribute_types, dataset_types]
all_format_fields(ft) == <<single_element_types(ft), array_dtypes(ft)>>

----------------------------------------------------------------------------
(* Records *)

\* A default payload for a field of a given dtype
DefaultVal(ty) == IF ty = "str" THEN "s" ELSE 0

\* The record with exactly the declared fields, each of its declared type
ConformantRecords ==
  [ft \in Filetypes |->
    [k \in DOMAIN single_element_types(ft) \cup DOMAIN array_dtypes(ft) |->
        IF k \in DOMAIN single_element_types(ft)
        THEN Scalar(single_element_types(ft)[k],
                    DefaultVal(single_element_types(ft)[k]))
        ELSE Array(array_dtypes(ft)[k], DefaultVal(array_dtypes(ft)[k]))]]

ConformantRecord(ft) == ConformantRecords[ft]

SchemaKeys(ft) == DOMAIN ConformantRecords[ft]

\* del record[k]
RemoveKey(record, k) == [x \in DOMAIN record \ {k} |-> record[x]]

\* record[k] = v
SetKey(record, k, v) ==
    [x \in DOMAIN record \cup {k} |-> IF x = k THEN v ELSE record[x]]

\* Another dtype than ty (the next one in a fixed cycle)
OtherDtype(ty) ==
    CASE ty = "str" -> "uint32"
      [] ty = "uint32" -> "float32"
      [] ty = "int64" -> "uint32"
      [] ty = "float32" -> "float64"
      [] ty = "float64" -> "complex64"
      [] OTHER -> "float64"

----------------------------------------------------------------------------
(* The checker exercised on one record: a caller edits a conformant record *)
(* and runs the three static checks on it.                                  *)

RecordNames == <<"1546300800000", "1546300803000", "1546300806000">>

NoResult == [op |-> "none"] @@ NoOutcome

InitCheck ==
    /\ ck_type \in Filetypes
    /\ ck_name \in {RecordNames[1]}
    /\ ck_record = ConformantRecord(ck_type)
    /\ ck_altered = {}
    /\ ck_nonarray = {}
    /\ ck_edited = {}
    /\ ck_result = NoResult

\* The edit bound: a field that already differs may be edited again
CanEdit(k) == k \in ck_edited \/ Cardinality(ck_edited) < MaxEdits

\* del record[k] for a declared field
RemoveField(k) ==
    /\ k \in DOMAIN ck_record /\ k \in SchemaKeys(ck_type)
    /\ CanEdit(k)
    /\ ck_record' = RemoveKey(ck_record, k)
    /\ ck_altered' = ck_altered \ {k}
    /\ ck_nonarray' = ck_nonarray \ {k}
    /\ ck_edited' = ck_edited \cup {k}
    /\ ck_result' = NoResult
    /\ UNCHANGED <<ck_type, ck_name>>
    /\ UNCHANGED <<ioVars, cvVars>>

\* record[k] = <the conformant value> for a declared field that was removed
\* or altered
RestoreField(k) ==
    /\ k \in SchemaKeys(ck_type) /\ k \in ck_edited
    /\ ck_record' = SetKey(ck_record, k, ConformantRecord(ck_type)[k])
    /\ ck_altered' = ck_altered \ {k}
    /\ ck_nonarray' = ck_nonarray \ {k}
    /\ ck_edited' = ck_edited \ {k}
    /\ ck_result' = NoResult
    /\ UNCHANGED <<ck_type, ck_name>>
    /\ UNCHANGED <<ioVars, cvVars>>

\* record[k] = value for an undeclared k
AddField(k) ==
    /\ k \in UndeclaredFields /\ k \notin DOMAIN ck_record
    /\ CanEdit(k)
    /\ ck_record' = SetKey(ck_record, k, Array("uint32", 0))
    /\ ck_edited' = ck_edited \cup {k}
    /\ ck_result' = NoResult
    /\ UNCHANGED <<ck_type, ck_name, ck_altered, ck_nonarray>>
    /\ UNCHANGED <<ioVars, cvVars>>

\* del record[k] for an undeclared k
DropField(k) ==
    /\ k \in UndeclaredFields /\ k \in DOMAIN ck_record
    /\ ck_record' = RemoveKey(ck_record, k)
    /\ ck_edited' = ck_edited \ {k}
    /\ ck_result' = NoResult
    /\ UNCHANGED <<ck_type, ck_name, ck_altered, ck_nonarray>>
    /\ UNCHANGED <<ioVars, cvVars>>

\* Replace a declared attribute by a value of another runtime type (a numpy
\* scalar of another type, or an array), or a declared dataset by an array
\* of another element type.
AlterType(k) ==
    /\ k \in SchemaKeys(ck_type) /\ k \notin ck_edited
    /\ CanEdit(k)
    /\ \E v \in IF k \in DOMAIN single_element_types(ck_type)
                THEN {Scalar(OtherDtype(ck_record[k].ty), ck_record[k].val),
                      Array(ck_record[k].ty, ck_record[k].val)}
                ELSE {Array(OtherDtype(ck_record[k].ty), ck_record[k].val)} :
          ck_record' = SetKey(ck_record, k, v)
    /\ ck_altered' = ck_altered \cup {k}
    /\ ck_edited' = ck_edited \cup {k}
    /\ ck_result' = NoResult
    /\ UNCHANGED <<ck_type, ck_name, ck_nonarray>>
    /\ UNCHANGED <<ioVars, cvVars>>

\* Replace a declared dataset by a value that is no array (a plain Python
\* object: it has no dtype).
StoreNonArray(k) ==
    /\ k \in DOMAIN array_dtypes(ck_type) /\ k \notin ck_edited
    /\ CanEdit(k)
    /\ ck_record' = SetKey(ck_record, k, Native(ck_record[k].val))
    /\ ck_nonarray' = ck_nonarray \cup {k}
    /\ ck_edited' = ck_edited \cup {k}
    /\ ck_result' = NoResult
    /\ UNCHANGED <<ck_type, ck_name, ck_altered>>
    /\ UNCHANGED <<ioVars, cvVars>>

MissingFieldCheck ==
    /\ ck_result' = [op |-> "missing"] @@
           missing_field_check(all_format_fields(ck_type), ck_record, ck_name)
    /\ UNCHANGED <<ck_type, ck_name, ck_record, ck_altered, ck_nonarray, ck_edited>>
    /\ UNCHANGED <<ioVars, cvVars>>

ExtraFieldCheck ==
    /\ ck_result' = [op |-> "extra"] @@
           extra_field_check(all_format_fields(ck_type), ck_record, ck_name)
    /\ UNCHANGED <<ck_type, ck_name, ck_record, ck_altered, ck_nonarray, ck_edited>>
    /\ UNCHANGED <<ioVars, cvVars>>

TypeCheck ==
    /\ ck_result' = [op |-> "types"] @@
           incorrect_types_check(single_element_types(ck_type),
                                 array_dtypes(ck_type), ck_record, ck_name)
    /\ UNCHANGED <<ck_type, ck_name, ck_record, ck_altered, ck_nonarray, ck_edited>>
    /\ UNCHANGED <<ioVars, cvVars>>

NextCheck ==
    \/ \E k \in Range(FieldOrder) : RemoveField(k)
    \/ \E k \in Range(FieldOrder) : RestoreField(k)
    \/ \E k \in UndeclaredFields : AddField(k)
    \/ \E k \in UndeclaredFields : DropField(k)
    \/ \E k \in Range(FieldOrder) : AlterType(k)
    \/ \E k \in Range(FieldOrder) : StoreNonArray(k)
    \/ MissingFieldCheck
    \/ ExtraFieldCheck
    \/ TypeCheck


----------------------------------------------------------------------------
(* OrderedDict: the keys in insertion order, and the mapping *)

OD_Empty == [keys |-> <<>>, val |-> <<>>]

\* A variant that puts a new key first
OD_Set_prepended(d, k, v) ==
    [keys |-> IF k \in DOMAIN d.val THEN d.keys ELSE <<k>> \o d.keys,
     val  |-> SetKey(d.val, k, v)]

\* A variant that inserts nothing
OD_Set_ignored(d, k, v) == d

\* d[k] = v: a new key goes to the end, an old key keeps its place
OD_Set(d, k, v) ==
    [keys |-> IF k \in Range(d.keys) THEN d.keys ELSE Append(d.keys, k),
     val  |-> SetKey(d.val, k, v)]

\* A variant that lists the names in descending order
sorted_keys_descending(S) ==
    [i \in 1..Len(SelectIn(RecordNames, S)) |->
        SelectIn(RecordNames, S)[Len(SelectIn(RecordNames, S)) + 1 - i]]

\* sorted(list(d.keys())): record names are compared as strings; RecordNames
\* lists the names in ascending order
sorted_keys(S) == SelectIn(RecordNames, S)

----------------------------------------------------------------------------
(* deepdish: dd.io.save(path, {name: record}, compression=None) and        *)
(* dd.io.load(path, group='/' + name).  A numpy array is stored as a       *)
(* dataset node of its dtype, a numpy scalar or plain object as an         *)
(* attribute.  save opens the path for writing (mode 'w'): it creates the  *)
(* file anew with the given groups only.                                    *)

H5Node(v) ==
    [node  |-> IF v.kind = "array" THEN "dataset" ELSE "attribute",
     dtype |-> v.ty,
     data  |-> v.val]

FromH5(n) ==
    [kind |-> IF n.node = "dataset" THEN "array"
              ELSE IF n.dtype = "builtin" THEN "native" ELSE "scalar",
     ty   |-> n.dtype,
     val  |-> n.data]

H5Group(record) == [k \in DOMAIN record |-> H5Node(record[k])]

dd_io_load(group) == [k \in DOMAIN group |-> FromH5(group[k])]

\* The file after dd.io.save(filename, {name: record})
dd_io_save(f, name, record) ==
    [exists |-> TRUE, groups |-> [n \in {name} |-> H5Group(record)]]

NoFile == [exists |-> FALSE, groups |-> <<>>]

----------------------------------------------------------------------------
(* The three-stage check both _read_borealis_record and                    *)
(* _write_borealis_record run: the first check that raises ends it.        *)

\* A variant that leaves out the extra-field check
check_record_no_extra(ft, record, record_name) ==
    LET missing == missing_field_check(all_format_fields(ft), record,
                                       record_name)
    IN  IF missing.kind # "ok" THEN missing
        ELSE incorrect_types_check(single_element_types(ft),
                                   array_dtypes(ft), record, record_name)

\* A variant that leaves out the type check
check_record_no_types(ft, record, record_name) ==
    LET missing == missing_field_check(all_format_fields(ft), record,
                                       record_name)
        extra   == extra_field_check(all_format_fields(ft), record,
                                     record_name)
    IN  IF missing.kind # "ok" THEN missing ELSE extra

\* A variant that runs the extra-field check before the missing-field check
check_record_extra_first(ft, record, record_name) ==
    LET missing == missing_field_check(all_format_fields(ft), record,
                                       record_name)
        extra   == extra_field_check(all_format_fields(ft), record,
                                     record_name)
    IN  IF extra.kind # "ok" THEN extra
        ELSE IF missing.kind # "ok" THEN missing
        ELSE incorrect_types_check(single_element_types(ft),
                                   array_dtypes(ft), record, record_name)

check_record(ft, record, record_name) ==
    LET missing == missing_field_check(all_format_fields(ft), record,
                                       record_name)
        extra   == extra_field_check(all_format_fields(ft), record,
                                     record_name)
    IN  IF missing.kind # "ok" THEN missing
        ELSE IF extra.kind # "ok" THEN extra
        ELSE incorrect_types_check(single_element_types(ft),
                                   array_dtypes(ft), record, record_name)

ConformanceErrors ==
    {"BorealisFieldMissingError", "BorealisExtraFieldError",
     "BorealisDataFormatTypeError"}

\* How a reader or writer call ended
CallResult(op, ft, outcome) == [op |-> op, ft |-> ft] @@ outcome

NoCall == CallResult("none", "", NoOutcome)

\* File type names a caller may pass: the four supported ones and another
RequestedTypes == Filetypes \cup {"fitacf"}

\* A variant of the if/elif chain that takes every name as a supported one
supported_filetype_any(borealis_filetype) == TRUE

\* The if/elif chain of read_file and of write_file: the four names have a
\* branch, any other name falls to the raise
supported_filetype(borealis_filetype) == borealis_filetype \in Filetypes

----------------------------------------------------------------------------
(* Records a file or a collection may hold: the conformant record of a     *)
(* type, the same with another payload, and records one or two edits away  *)
(* from it.                                                                 *)

RecordVariants(ft) ==
    LET good == ConformantRecord(ft)
        attr == CHOOSE k \in DOMAIN single_element_types(ft) : TRUE
        dset == CHOOSE k \in DOMAIN array_dtypes(ft) : TRUE
    IN  { good,
          SetKey(good, "data", Array("complex64", 1)),
          RemoveKey(good, dset),
          SetKey(good, "extra_a", Array("uint32", 0)),
          SetKey(good, attr, Array(good[attr].ty, good[attr].val)),
          SetKey(RemoveKey(good, attr), "extra_a", Array("uint32", 0)),
          SetKey(SetKey(good, "extra_a", Array("uint32", 0)),
                 dset, Array(OtherDtype(good[dset].ty), good[dset].val)) }

\* The sequences of distinct names among the first MaxRecords names
NameOrders ==
    {s \in UNION {[1..n -> {RecordNames[i] : i \in 1..MaxRecords}] :
                     n \in 0..MaxRecords} :
        \A i, j \in DOMAIN s : i # j => s[i] # s[j]}

\* The record collections over the records of one type
Collections(ft) ==
    UNION {{[keys |-> ks, val |-> v] : v \in [Range(ks) -> RecordVariants(ft)]} :
              ks \in NameOrders}

----------------------------------------------------------------------------
(* BorealisRead and BorealisWrite *)

ClosedReader ==
    [group_names |-> <<>>, current_record_name |-> "", records |-> OD_Empty]

NoReadCall == [ft |-> "", idx |-> 0, before |-> OD_Empty]
NoWriteCall == [ft |-> "", idx |-> 0, saved |-> <<>>]

\* BorealisWrite.__init__(filename, borealis_records)
NewWriter(borealis_records) ==
    [borealis_records |-> borealis_records,
     group_names |-> sorted_keys(DOMAIN borealis_records.val),
     current_record_name |-> ""]

IdleCheck ==
    /\ ck_type = "bfiq"
    /\ ck_name = RecordNames[1]
    /\ ck_record = ConformantRecord("bfiq")
    /\ ck_altered = {}
    /\ ck_nonarray = {}
    /\ ck_edited = {}
    /\ ck_result = NoResult

\* No file to convert, no BorealisConvert object, no converter call yet
NoConvertFile == [path |-> <<>>, groups |-> <<>>]

NoConverter ==
    [open |-> FALSE, filename |-> <<>>, origin_filetype |-> "",
     borealis_records |-> OD_Empty, group_names |-> <<>>,
     dmap_records |-> <<>>]

NoConvertCall ==
    [op |-> "none", kind |-> "none", record_name |-> "", target |-> "",
     dmap_filename |-> <<>>, before |-> <<>>]

NoConvertIO == [read |-> FALSE, written |-> <<>>]

IdleConvert ==
    /\ cv_file = NoConvertFile
    /\ cv = NoConverter
    /\ cv_result = NoConvertCall
    /\ cv_io = NoConvertIO

IdleReader ==
    /\ rd = ClosedReader
    /\ rd_pc = "closed"
    /\ rd_call = NoReadCall
    /\ rd_result = NoCall
    /\ rd_fresh = FALSE

IdleWriter ==
    /\ wr_pc = "idle"
    /\ wr_call = NoWriteCall
    /\ wr_result = NoCall

\* A file some producer left; the writer holds the default (empty) collection
InitRead ==
    /\ \E ft \in Filetypes : \E c \in Collections(ft) :
          file = [exists |-> TRUE,
                  groups |-> [n \in DOMAIN c.val |-> H5Group(c.val[n])]]
    /\ wr = NewWriter(OD_Empty)
    /\ IdleReader /\ IdleWriter /\ IdleCheck /\ IdleConvert

\* No file yet; a writer constructed on a record collection
InitWrite ==
    /\ file = NoFile
    /\ \E ft \in Filetypes : \E c \in Collections(ft) : wr = NewWriter(c)
    /\ IdleReader /\ IdleWriter /\ IdleCheck /\ IdleConvert

\* The values the reader and writer variables keep in a specification that
\* does not use them
IdleIO ==
    /\ file = NoFile
    /\ wr = NewWriter(OD_Empty)
    /\ IdleReader /\ IdleWriter

NoCallRunning == rd_pc # "reading" /\ wr_pc # "writing"

\* BorealisRead(filename): h5py.File(filename, 'r') raises OSError when the
\* file cannot be opened; otherwise the group names are listed and sorted.
ReaderOpen ==
    /\ NoCallRunning
    /\ IF file.exists
       THEN /\ rd' = [group_names |-> sorted_keys(DOMAIN file.groups),
                      current_record_name |-> "",
                      records |-> OD_Empty]
            /\ rd_pc' = "idle"
            /\ rd_result' = CallResult("open", "", Ok(""))
            /\ rd_fresh' = (wr_result.kind = "ok")
       ELSE /\ rd_result' = CallResult("open", "", Outcome("OSError", "", {}, {}))
            /\ UNCHANGED <<rd, rd_pc, rd_fresh>>
    /\ rd_call' = NoReadCall
    /\ UNCHANGED <<file, wr, wr_pc, wr_call, wr_result>>
    /\ UNCHANGED <<ckVars, cvVars>>

\* read_file(borealis_filetype), up to the loop of _read_borealis_records
ReadFile(borealis_filetype) ==
    /\ NoCallRunning /\ rd_pc = "idle"
    /\ IF ~supported_filetype(borealis_filetype)
       THEN /\ rd_result' = CallResult("read_file", borealis_filetype,
                   Outcome("BorealisFileTypeError", "", {}, {}))
            /\ UNCHANGED <<rd_pc, rd_call>>
       ELSE IF rd.group_names = <<>>
       THEN /\ rd_result' = CallResult("read_file", borealis_filetype, Ok(""))
            /\ UNCHANGED <<rd_pc, rd_call>>
       ELSE /\ rd_pc' = "reading"
            /\ rd_call' = [ft |-> borealis_filetype, idx |-> 1,
                           before |-> rd.records]
            /\ rd_result' = NoCall
    /\ UNCHANGED <<file, rd, rd_fresh, wr, wr_pc, wr_call, wr_result>>
    /\ UNCHANGED <<ckVars, cvVars>>

\* One iteration of the loop of _read_borealis_records: set the cursor, then
\* _read_borealis_record loads the group, checks it and inserts it.
ReadRecord ==
    /\ rd_pc = "reading"
    /\ LET record_name == rd.group_names[rd_call.idx]
           cursor == [rd EXCEPT !.current_record_name = record_name]
       IN  IF ~file.exists \/ record_name \notin DOMAIN file.groups
           THEN /\ rd' = cursor
                /\ rd_pc' = "idle"
                /\ rd_result' = CallResult("read_file", rd_call.ft,
                       Outcome("LoadError", record_name, {}, {}))
                /\ UNCHANGED rd_call
           ELSE LET record  == dd_io_load(file.groups[record_name])
                    outcome == check_record(rd_call.ft, record, record_name)
                IN  IF outcome.kind # "ok"
                    THEN /\ rd' = cursor
                         /\ rd_pc' = "idle"
                         /\ rd_result' =
                                CallResult("read_file", rd_call.ft, outcome)
                         /\ UNCHANGED rd_call
                    ELSE /\ rd' = [cursor EXCEPT !.records =
                                      OD_Set(rd.records, record_name, record)]
                         /\ IF rd_call.idx = Len(rd.group_names)
                            THEN /\ rd_pc' = "idle"
                                 /\ rd_result' = CallResult("read_file",
                                        rd_call.ft, Ok(""))
                                 /\ UNCHANGED rd_call
                            ELSE /\ rd_call' =
                                       [rd_call EXCEPT !.idx = @ + 1]
                                 /\ UNCHANGED <<rd_pc, rd_result>>
    /\ UNCHANGED <<file, rd_fresh, wr, wr_pc, wr_call, wr_result>>
    /\ UNCHANGED <<ckVars, cvVars>>

\* write_file(borealis_filetype), up to the loop of _write_borealis_records
WriteFile(borealis_filetype) ==
    /\ NoCallRunning
    /\ IF ~supported_filetype(borealis_filetype)
       THEN /\ wr_result' = CallResult("write_file", borealis_filetype,
                   Outcome("BorealisFileTypeError", "", {}, {}))
            /\ UNCHANGED <<wr_pc, wr_call, rd_fresh>>
       ELSE IF wr.group_names = <<>>
       THEN /\ wr_result' = CallResult("write_file", borealis_filetype, Ok(""))
            /\ wr_call' = NoWriteCall
            /\ rd_fresh' = FALSE
            /\ UNCHANGED wr_pc
       ELSE /\ wr_pc' = "writing"
            /\ wr_call' = [ft |-> borealis_filetype, idx |-> 1, saved |-> <<>>]
            /\ wr_result' = NoCall
            /\ rd_fresh' = FALSE
    /\ UNCHANGED <<file, rd, rd_pc, rd_call, rd_result, wr>>
    /\ UNCHANGED <<ckVars, cvVars>>

\* One iteration of the loop of _write_borealis_records: set the cursor, then
\* _write_borealis_record looks the record up in self.borealis_records (a
\* KeyError when the collection does not hold the name), checks it and
\* saves it.
WriteRecord ==
    /\ wr_pc = "writing"
    /\ LET record_name == wr.group_names[wr_call.idx]
           record  == wr.borealis_records.val[record_name]
           outcome == IF record_name \in DOMAIN wr.borealis_records.val
                      THEN check_record(wr_call.ft, record, record_name)
                      ELSE Outcome("KeyError", record_name, {}, {})
       IN  /\ wr' = [wr EXCEPT !.current_record_name = record_name]
           /\ IF outcome.kind # "ok"
              THEN /\ wr_pc' = "idle"
                   /\ wr_result' = CallResult("write_file", wr_call.ft, outcome)
                   /\ UNCHANGED <<file, wr_call>>
              ELSE /\ file' = dd_io_save(file, record_name, record)
                   /\ wr_call' = [wr_call EXCEPT !.idx = @ + 1,
                                      !.saved = Append(@, record_name)]
                   /\ IF wr_call.idx = Len(wr.group_names)
                      THEN /\ wr_pc' = "idle"
                           /\ wr_result' = CallResult("write_file",
                                  wr_call.ft, Ok(""))
                      ELSE UNCHANGED <<wr_pc, wr_result>>
    /\ UNCHANGED <<rd, rd_pc, rd_call, rd_result, rd_fresh>>
    /\ UNCHANGED <<ckVars, cvVars>>

NextRead ==
    \/ ReaderOpen
    \/ \E ft \in RequestedTypes : ReadFile(ft)
    \/ ReadRecord

\* The session of the writer specification: the caller writes, and once a
\* write_file call has succeeded it constructs a reader on the file and reads
\* it back; while it holds that reader it does not write again, except for
\* calls with a type name write_file does not know.
WriteCall(ft) == (rd_pc = "closed" \/ ft \notin Filetypes) /\ WriteFile(ft)

ReadBack == wr_result.kind = "ok" /\ ReaderOpen

NextWrite ==
    \/ \E ft \in RequestedTypes : WriteCall(ft)
    \/ WriteRecord
    \/ ReadBack
    \/ \E ft \in RequestedTypes : ReadFile(ft)
    \/ ReadRecord

\* OrderedDict.pop(k): the other keys keep their order
OD_Remove(d, k) ==
    [keys |-> SelectSeq(d.keys, LAMBDA x : x # k),
     val  |-> [x \in DOMAIN d.val \ {k} |-> d.val[x]]]

\* BorealisWrite.borealis_records is a public attribute: between calls the
\* caller inserts a record under a name the collection does not hold
\* (writer.borealis_records[name] = record) ...
AddEntry(name) ==
    /\ NoCallRunning /\ rd_pc = "closed"
    /\ name \notin DOMAIN wr.borealis_records.val
    /\ wr' = [wr EXCEPT !.borealis_records =
                  OD_Set(@, name, ConformantRecord("bfiq"))]
    /\ UNCHANGED <<file, rd, rd_pc, rd_call, rd_result, rd_fresh,
                   wr_pc, wr_call, wr_result>>
    /\ UNCHANGED <<ckVars, cvVars>>

\* ... or removes one (del writer.borealis_records[name])
RemoveEntry(name) ==
    /\ NoCallRunning /\ rd_pc = "closed"
    /\ name \in DOMAIN wr.borealis_records.val
    /\ wr' = [wr EXCEPT !.borealis_records = OD_Remove(@, name)]
    /\ UNCHANGED <<file, rd, rd_pc, rd_call, rd_result, rd_fresh,
                   wr_pc, wr_call, wr_result>>
    /\ UNCHANGED <<ckVars, cvVars>>

\* A writer constructed on a collection of conformant bfiq records
InitCollections ==
    /\ file = NoFile
    /\ \E ks \in NameOrders :
          wr = NewWriter([keys |-> ks,
                          val  |-> [n \in Range(ks) |->
                                       ConformantRecord("bfiq")]])
    /\ IdleReader /\ IdleWriter /\ IdleCheck /\ IdleConvert

\* The session of the writer specification, with a caller that also edits
\* the writer's collection
NextCollections ==
    \/ \E ft \in RequestedTypes : WriteCall(ft)
    \/ WriteRecord
    \/ ReadBack
    \/ \E ft \in RequestedTypes : ReadFile(ft)
    \/ ReadRecord
    \/ \E name \in {RecordNames[i] : i \in 1..MaxRecords} : AddEntry(name)
    \/ \E name \in {RecordNames[i] : i \in 1..MaxRecords} : RemoveEntry(name)

----------------------------------------------------------------------------
(* numpy numbers.  A complex number is a pair <<re, im>>.  Real values are *)
(* integers here: the model's data are chosen so that every quotient,      *)
(* product and root the conversion takes of them is a whole number.        *)

\* np.iinfo(np.int16).max
Max16 == 32767

Abs(x) == IF x < 0 THEN -x ELSE x

\* np.int16(x) of an integer-valued numpy scalar: its low 16 bits, signed
ToInt16(x) ==
    LET low == x % 65536
    IN  IF low >= 32768 THEN low - 65536 ELSE low

\* The spacing of the float32 values around magnitude a: 1 below 2^24, and
\* doubling with every further power of two
RECURSIVE Float32Spacing(_, _)
Float32Spacing(a, u) ==
    IF a \div u < 16777216 THEN u ELSE Float32Spacing(a, 2 * u)

\* np.float32(x), x.astype(np.float32): round to the nearest float32, ties
\* to even
ToFloat32(x) ==
    LET a == Abs(x)
        u == Float32Spacing(a, 1)
        q == a \div u
        r == a % u
        rounded == IF 2 * r > u \/ (2 * r = u /\ q % 2 = 1)
                   THEN (q + 1) * u ELSE q * u
    IN  IF x < 0 THEN -rounded ELSE rounded

\* The largest r in lo..hi with r * r <= n
RECURSIVE SqrtSearch(_, _, _)
SqrtSearch(n, lo, hi) ==
    IF lo = hi THEN lo
    ELSE LET mid == (lo + hi + 1) \div 2
         IN  IF mid * mid <= n THEN SqrtSearch(n, mid, hi)
             ELSE SqrtSearch(n, lo, mid - 1)

\* (z.real**2 + z.imag**2)**0.5
Magnitude(z) == SqrtSearch(z[1] * z[1] + z[2] * z[2], 0, 46340)

\* arr.astype(np.complex128) * ((np.iinfo(np.int16).max**2) /
\*                              (data_normalization_factor**2)):
\* a new array, every entry scaled
rescale_correlations(arr, data_normalization_factor) ==
    LET scale == (Max16 * Max16)
                     \div (data_normalization_factor * data_normalization_factor)
    IN  [i \in DOMAIN arr |-> <<arr[i][1] * scale, arr[i][2] * scale>>]

----------------------------------------------------------------------------
(* Strings.  A path is a sequence of tokens: the separators "/" and ".",   *)
(* and name components, each one token.  A version tag is a sequence of    *)
(* characters.                                                              *)

\* The last position of token t in p, or 0
LastIndexOf(p, t) ==
    IF \E i \in DOMAIN p : p[i] = t
    THEN CHOOSE i \in DOMAIN p :
             p[i] = t /\ \A j \in DOMAIN p : p[j] = t => j <= i
    ELSE 0

\* os.path.basename(p): what follows the last "/"
basename(p) == SubSeq(p, LastIndexOf(p, "/") + 1, Len(p))

\* head.rstrip('/')
RECURSIVE rstrip_slash(_)
rstrip_slash(head) ==
    IF head # <<>> /\ head[Len(head)] = "/"
    THEN rstrip_slash(SubSeq(head, 1, Len(head) - 1))
    ELSE head

\* os.path.dirname(p): what precedes the last "/", without trailing
\* slashes unless it consists of slashes only
dirname(p) ==
    LET head == SubSeq(p, 1, LastIndexOf(p, "/"))
    IN  IF head # <<>> /\ \E i \in DOMAIN head : head[i] # "/"
        THEN rstrip_slash(head) ELSE head

\* name.split('.'): the components between the dots
split_dot(name) == SelectSeq(name, LAMBDA t : t # ".")

\* 'dmap'.join(name.split("hdf5")), as the loops of bfiq2darniqdat and
\* rawacf2darnrawacf build it: every "hdf5" becomes "dmap"
hdf5_to_dmap(name) ==
    [i \in DOMAIN name |-> IF name[i] = "hdf5" THEN "dmap" ELSE name[i]]

\* The default output path of bfiq2darniqdat and rawacf2darnrawacf
default_dmap_filename(filename) ==
    dirname(filename) \o <<"/">> \o hdf5_to_dmap(basename(filename))

\* int(token) for the decimal tokens the model uses
DecimalTokens == [t \in {"0", "1", "5"} |-> CASE t = "0" -> 0
                                            [] t = "1" -> 1
                                            [] t = "5" -> 5]

\* A part of the station table
code_to_stid ==
    [c \in {"sas", "pgr", "inv", "rkn", "cly"} |->
        CASE c = "sas" -> 5
          [] c = "pgr" -> 6
          [] c = "inv" -> 64
          [] c = "rkn" -> 65
          [] c = "cly" -> 66]

----------------------------------------------------------------------------
(* Files to convert.  The records carry the fields the conversion reads:   *)
(* a version tag, a station code, the pulse table with its spacing, the    *)
(* beams, and the samples (bfiq) or correlations (rawacf) with their       *)
(* dimensions.                                                              *)

\* how many beams a record to convert has at most
MaxBeams == 2

\* how many ranges a rawacf record to convert has at most
MaxRanges == 12

\* lag_zero[-10:], this_correlation[-10:, 0]: the last ranges, which take
\* the alternate lag-0
AltLagRanges == 10

\* The beam numbers of an n-beam record (7, 12, 1, ...: not ascending, and
\* different from their positions), and the azimuths
BeamNums(n) == [i \in 1..n |-> (5 * i + 2) % 16]
BeamAzms(n) == [i \in 1..n |-> 4 * ((5 * i + 2) % 16) - 30]

\* size complex entries, all different, each with a whole-number magnitude
Cells(size, base) == [i \in 1..size |-> <<3 * (base + i), 4 * (base + i)>>]

\* A convertible bfiq record with n beams: one antenna array, one sequence,
\* one sample per sequence
GoodBfiq(n) ==
    [borealis_git_hash |-> Scalar("str", <<"v", "0", ".", "5">>),
     station |-> Scalar("str", "sas"),
     tau_spacing |-> Scalar("uint32", 2500),
     tx_pulse_len |-> Scalar("uint32", 300),
     num_sequences |-> Scalar("int64", 1),
     data_normalization_factor |-> Scalar("float64", Max16),
     beam_nums |-> Array("uint32", BeamNums(n)),
     beam_azms |-> Array("float64", BeamAzms(n)),
     blanked_samples |-> Array("uint32", <<0, 72, 96>>),
     pulses |-> Array("uint32", <<0, 9, 12>>),
     pulse_phase_offset |-> Array("float32", <<0, 0, 0>>),
     data_dimensions |-> Array("uint32", <<1, 1, n, 1>>),
     data |-> Array("complex64", Cells(n, 0))]

\* A convertible bfiq record with n beams, two antenna arrays, two
\* sequences and three samples per sequence, all samples different
SampledBfiq(n) ==
    [GoodBfiq(n) EXCEPT
        !.num_sequences = Scalar("int64", 2),
        !.data_dimensions = Array("uint32", <<2, 2, n, 3>>),
        !.data = Array("complex64", Cells(12 * n, 0))]

\* Further one-beam bfiq records: normalization factor 1 with samples
\* whose components are -1, 0 and 1; a normalization factor of twice the
\* int16 maximum with odd components of both signs; and a record that
\* announces more sequences than its data hold
SampleVariants ==
    { [SampledBfiq(1) EXCEPT
          !.data_normalization_factor = Scalar("float64", 1),
          !.data = Array("complex64",
                       [p \in 1..12 |-> <<(p % 3) - 1, ((p \div 3) % 3) - 1>>])],
      [SampledBfiq(1) EXCEPT
          !.data_normalization_factor = Scalar("float64", 2 * Max16),
          !.data = Array("complex64",
                       [p \in 1..12 |-> <<2 * p + 1, -(2 * p + 1)>>])],
      [SampledBfiq(1) EXCEPT !.num_sequences = Scalar("int64", 3)] }

\* A convertible rawacf record with n beams, nr ranges and nl lags
GoodRawacf(n, nr, nl, norm) ==
    [borealis_git_hash |-> Scalar("str", <<"v", "0", ".", "5">>),
     station |-> Scalar("str", "sas"),
     tau_spacing |-> Scalar("uint32", 2500),
     tx_pulse_len |-> Scalar("uint32", 300),
     data_normalization_factor |-> Scalar("float64", norm),
     beam_nums |-> Array("uint32", BeamNums(n)),
     beam_azms |-> Array("float64", BeamAzms(n)),
     blanked_samples |-> Array("uint32", <<0, 72, 96>>),
     pulses |-> Array("uint32", <<0, 9, 12>>),
     lags |-> Array("uint32", [l \in 1..nl |-> <<0, l - 1>>]),
     correlation_dimensions |-> Array("uint32", <<n, nr, nl>>),
     main_acfs |-> Array("complex64", Cells(n * nr * nl, 0)),
     intf_acfs |-> Array("complex64", Cells(n * nr * nl, 100)),
     xcfs |-> Array("complex64", Cells(n * nr * nl, 200))]

\* Records the conversion refuses: blanked samples off the pulse table,
\* a station the table does not list, a version tag too short to index,
\* and a record that lacks a declared field
Deviations(good) ==
    { SetKey(good, "blanked_samples", Array("uint32", <<0, 72, 97>>)),
      SetKey(good, "station", Scalar("str", "xyz")),
      SetKey(good, "borealis_git_hash", Scalar("str", <<"v", "1">>)),
      RemoveKey(good, "pulses") }

BfiqVariants ==
    {GoodBfiq(n) : n \in {0, 1, MaxBeams}}
    \cup {SampledBfiq(MaxBeams)}
    \cup Deviations(GoodBfiq(1))
    \cup {SetKey(GoodBfiq(1), "pulse_phase_offset",
                 Array("float32", <<0, 1, 0>>))}

\* The convertible rawacf records differ in the number of ranges (more
\* than AltLagRanges, or fewer), of lags, and in the normalization factor;
\* a record with a single lag is not convertible
RawacfVariants ==
    {GoodRawacf(0, MaxRanges, 2, Max16),
     GoodRawacf(1, MaxRanges, 3, Max16),
     GoodRawacf(MaxBeams, MaxRanges - 1, 2, Max16 \div 7),
     GoodRawacf(1, 2, 3, Max16),
     GoodRawacf(1, 2, 1, Max16)}
    \cup Deviations(GoodRawacf(1, 2, 3, Max16))

\* Further records, each the only record of its file: a version tag that
\* is not a tagged version, an empty one, one with a minor number of two
\* digits, a zero pulse length, and an unlisted station on a record
\* without beams
LoneVariants(good, nobeams) ==
    { SetKey(good, "borealis_git_hash",
             Scalar("str", <<"a", "b", "c", "d", "e">>)),
      SetKey(good, "borealis_git_hash", Scalar("str", <<>>)),
      SetKey(good, "borealis_git_hash",
             Scalar("str", <<"v", "1", ".", "1", "0">>)),
      SetKey(good, "tx_pulse_len", Scalar("uint32", 0)),
      SetKey(nobeams, "station", Scalar("str", "xyz")) }

\* The groups of a file holding the given records under the first names
GroupsOf(recs) ==
    [name \in {RecordNames[i] : i \in DOMAIN recs} |->
        H5Group(recs[CHOOSE i \in DOMAIN recs : RecordNames[i] = name])]

FilesOf(path, variants, maxlen) ==
    {[path |-> path, groups |-> GroupsOf(recs)] :
        recs \in UNION {[1..n -> variants] : n \in 0..maxlen}}

ConvertPath(dir, tag, suffix) == dir \o <<"a", ".", "0", ".", tag, ".", suffix>>

\* The files to convert: files of both convertible types named as usual,
\* holding up to MaxRecords of the records above; single-record files
\* named with or without a directory and with or without the hdf5 suffix;
\* a file of another Borealis type, and a file whose name carries no
\* Borealis type
ConvertFiles ==
    FilesOf(ConvertPath(<<"/", "data", "/">>, "bfiq", "hdf5"),
            BfiqVariants, MaxRecords)
    \cup FilesOf(ConvertPath(<<"/", "data", "/">>, "rawacf", "hdf5"),
                 RawacfVariants, MaxRecords)
    \cup FilesOf(ConvertPath(<<"/", "data", "/">>, "bfiq", "hdf5"),
                 LoneVariants(GoodBfiq(1), GoodBfiq(0)), 1)
    \cup FilesOf(ConvertPath(<<"/", "data", "/">>, "bfiq", "hdf5"),
                 SampleVariants, 1)
    \cup FilesOf(ConvertPath(<<"/", "data", "/">>, "rawacf", "hdf5"),
                 LoneVariants(GoodRawacf(1, 2, 3, Max16),
                              GoodRawacf(0, 2, 3, Max16)), 1)
    \cup UNION {FilesOf(ConvertPath(dir, "bfiq", suffix),
                        {GoodBfiq(1)}, 1) \cup
                FilesOf(ConvertPath(dir, "rawacf", suffix),
                        {GoodRawacf(1, 2, 3, Max16)}, 1) :
                    dir \in {<<>>, <<"/", "data", "/">>},
                    suffix \in {"hdf5", "h5"}}
    \cup FilesOf(ConvertPath(<<"/", "data", "/">>, "antennas_iq", "hdf5"),
                 {ConformantRecord("antennas_iq")}, 1)
    \cup FilesOf(ConvertPath(<<"/", "data", "/">>, "txt", "hdf5"),
                 {GoodBfiq(1)}, 1)

\* An output path of the caller's choice
OutPath == <<"/", "out", "/", "x", ".", "dmap">>

----------------------------------------------------------------------------
(* BorealisConvert: the convertibility predicates *)

\* How a conversion step ended: "ok" with the records made so far, or the
\* exception raised and the source record it was raised for
Raise(kind, k) == [kind |-> kind, record_name |-> k, recs |-> <<>>]
Done(recs)     == [kind |-> "ok", record_name |-> "", recs |-> recs]

\* v['pulses'] * int(v['tau_spacing'] / v['tx_pulse_len'])
pulses_by_spacing(v) ==
    LET quotient == v.tau_spacing.val \div v.tx_pulse_len.val
    IN  [i \in DOMAIN v.pulses.val |-> v.pulses.val[i] * quotient]

\* A variant that compares the shapes only
array_equal_shape(a1, a2) == Len(a1) = Len(a2)

\* np.array_equal(a1, a2): the same shape and the same elements
array_equal(a1, a2) ==
    Len(a1) = Len(a2) /\ \A i \in DOMAIN a1 : a1[i] = a2[i]

\* The loop of _is_convertible_to_iqdat / _is_convertible_to_rawacf over
\* self._borealis_records.items().  A zero tx_pulse_len makes the quotient
\* inf (or nan), which int() refuses.
RECURSIVE convertible_loop(_, _, _, _)
convertible_loop(borealis_records, i, error_kind, check_phase) ==
    IF i > Len(borealis_records.keys) THEN Done(<<>>)
    ELSE LET k == borealis_records.keys[i]
             v == borealis_records.val[k]
         IN  IF v.tx_pulse_len.val = 0
             THEN Raise(IF v.tau_spacing.val = 0 THEN "ValueError"
                        ELSE "OverflowError", k)
             ELSE IF ~array_equal(v.blanked_samples.val, pulses_by_spacing(v))
             THEN Raise(error_kind, k)
             ELSE IF check_phase
                     /\ \E x \in DOMAIN v.pulse_phase_offset.val :
                            v.pulse_phase_offset.val[x] # 0
             THEN Raise(error_kind, k)
             ELSE convertible_loop(borealis_records, i + 1, error_kind,
                                   check_phase)

\* A variant that does not look at pulse_phase_offset
is_convertible_to_iqdat_no_phase(self) ==
    IF self.origin_filetype # "bfiq" THEN Raise("AttributeError", "")
    ELSE convertible_loop(self.borealis_records, 1,
                          "BorealisConvert2IqdatError", FALSE)

\* On another origin type the raise statement reads self.dmap_filetype,
\* an attribute the object does not have
is_convertible_to_iqdat(self) ==
    IF self.origin_filetype # "bfiq" THEN Raise("AttributeError", "")
    ELSE convertible_loop(self.borealis_records, 1,
                          "BorealisConvert2IqdatError", TRUE)

is_convertible_to_rawacf(self) ==
    IF self.origin_filetype # "rawacf" THEN Raise("AttributeError", "")
    ELSE convertible_loop(self.borealis_records, 1,
                          "BorealisConvert2RawacfError", FALSE)

----------------------------------------------------------------------------
(* BorealisConvert: what both conversions do per record and per beam *)

\* The version tag: hash[0] == 'v' and hash[2] == '.', then hash[1] and
\* hash[3]; otherwise 255 and 255.  Indexing past the end is an IndexError.
\* tagged tells the characters of a tag from the integers 255.
parse_revision(hash) ==
    IF Len(hash) < 1
    THEN [kind |-> "IndexError", tagged |-> FALSE, major |-> "", minor |-> ""]
    ELSE IF hash[1] # "v"
    THEN [kind |-> "ok", tagged |-> FALSE, major |-> 255, minor |-> 255]
    ELSE IF Len(hash) < 3
    THEN [kind |-> "IndexError", tagged |-> FALSE, major |-> "", minor |-> ""]
    ELSE IF hash[3] # "."
    THEN [kind |-> "ok", tagged |-> FALSE, major |-> 255, minor |-> 255]
    ELSE IF Len(hash) < 4
    THEN [kind |-> "IndexError", tagged |-> FALSE, major |-> "", minor |-> ""]
    ELSE [kind |-> "ok", tagged |-> TRUE, major |-> hash[2], minor |-> hash[4]]

\* np.int8(x) of an integer: its low 8 bits, signed (numpy before 2.0
\* wraps a Python integer that does not fit)
ToInt8(x) ==
    LET low == x % 256
    IN  IF low >= 128 THEN low - 256 ELSE low

\* 'radar.revision.major': np.int8(borealis_major_revision), and minor:
\* of the integer 255, or of the character of the tag, read as a decimal
revision_fields(revision) ==
    [radar_revision_major |->
         Scalar("int8", ToInt8(IF revision.tagged
                               THEN DecimalTokens[revision.major]
                               ELSE revision.major)),
     radar_revision_minor |->
         Scalar("int8", ToInt8(IF revision.tagged
                               THEN DecimalTokens[revision.minor]
                               ELSE revision.minor))]

\* A variant that numbers the beams by their position
beam_fields_by_index(v, beam_index, beam) ==
    [bmnum |-> Scalar("int16", ToInt16(beam_index - 1)),
     bmazm |-> Scalar("float32", ToFloat32(v.beam_azms.val[beam_index]))]

\* 'bmnum': np.int16(beam), 'bmazm': np.float32(v['beam_azms'][beam_index])
beam_fields(v, beam_index, beam) ==
    [bmnum |-> Scalar("int16", ToInt16(beam)),
     bmazm |-> Scalar("float32", ToFloat32(v.beam_azms.val[beam_index]))]

\* The fields both record_dicts take from the record, the file name and
\* the station table in the same way
\* A lookup that falls back on a station id of 0
lookup_stid_default(station) ==
    [kind |-> "ok",
     val  |-> IF station \in DOMAIN code_to_stid
              THEN code_to_stid[station] ELSE 0]

\* code_to_stid[v['station']]: a KeyError for a code the table lacks
lookup_stid(station) ==
    IF station \in DOMAIN code_to_stid
    THEN [kind |-> "ok", val |-> code_to_stid[station]]
    ELSE [kind |-> "KeyError", val |-> 0]

common_fields(filename, k, v, beam_index) ==
    beam_fields(v, beam_index, v.beam_nums.val[beam_index])
    @@ revision_fields(parse_revision(v.borealis_git_hash.val))
    @@ [stid    |-> Scalar("int16", ToInt16(lookup_stid(v.station.val).val)),
        channel |-> Scalar("int16",
                       ToInt16(DecimalTokens[
                           split_dot(basename(filename))[
                               Len(split_dot(basename(filename))) - 2]])),
        txpl    |-> Scalar("int16", ToInt16(v.tx_pulse_len.val)),
        mpinc   |-> Scalar("int16", ToInt16(v.tau_spacing.val)),
        mppul   |-> Scalar("int16", ToInt16(Len(v.pulses.val))),
        combf   |-> Native([filename |-> filename, record |-> k,
                            beams |-> Len(v.beam_nums.val)])]

\* What building the common fields of a record_dict raises, in the order
\* the dict literal evaluates them, or "ok"
common_fields_error(filename, v, beam_index) ==
    LET parts == split_dot(basename(filename))
        revision == parse_revision(v.borealis_git_hash.val)
    IN  IF /\ revision.tagged
           /\ \/ revision.major \notin DOMAIN DecimalTokens
              \/ revision.minor \notin DOMAIN DecimalTokens
        THEN "ValueError"
        ELSE IF lookup_stid(v.station.val).kind # "ok"
        THEN lookup_stid(v.station.val).kind
        ELSE IF parts[Len(parts) - 2] \notin DOMAIN DecimalTokens
        THEN "ValueError"
        ELSE IF beam_index > Len(v.beam_azms.val) THEN "IndexError"
        ELSE "ok"

\* What precedes the beam loop raises: the version tag is indexed, and the
\* slice id is basename.split('.')[-3]
before_beams_error(filename, v) ==
    IF parse_revision(v.borealis_git_hash.val).kind # "ok" THEN "IndexError"
    ELSE IF Len(split_dot(basename(filename))) < 3 THEN "IndexError"
    ELSE "ok"

\* dict2dmap(recs): every field becomes a named DMap scalar or array; the
\* records keep their order
dict2dmap(recs) ==
    [i \in DOMAIN recs |->
        [f \in DOMAIN recs[i] |->
            [name |-> f,
             dmap |-> IF recs[i][f].kind = "array" THEN "DmapArray"
                      ELSE "DmapScalar",
             ty   |-> recs[i][f].ty,
             val  |-> recs[i][f].val]]]

----------------------------------------------------------------------------
(* BorealisConvert._convert_bfiq_to_iqdat *)

\* A variant that does not multiply by the int16 maximum
rescale_sample_unscaled(c, data_normalization_factor) ==
    [num |-> c, den |-> data_normalization_factor]

\* c / data_normalization_factor * np.iinfo(np.int16).max for one real or
\* imaginary component c, as an exact fraction
rescale_sample(c, data_normalization_factor) ==
    [num |-> c * Max16, den |-> data_normalization_factor]

\* int_data[0::2] = flattened_data.real: the assignment into the int16
\* array casts the float toward zero (the inputs keep it within int16;
\* the cast of a float beyond the range is not defined)
astype_int16(q) ==
    IF q.num >= 0 THEN q.num \div q.den ELSE -((-q.num) \div q.den)

\* The position (from 1) in the flat v['data'] of the entry
\* [x, i, b, s] (from 0) of the array reshaped to
\* num_antenna_arrays x num_sequences x num_beams x num_samps
DataFlat(dims, x, i, b, s) ==
    ((x * dims[2] + i) * dims[3] + b) * dims[4] + s + 1

\* np.ravel(np.column_stack(arrays)): the arrays become the columns of a
\* num_samps x num_antenna_arrays matrix, which is read row by row
column_stack_ravel(arrays) ==
    [p \in 1..(Len(arrays) * Len(arrays[1])) |->
        arrays[((p - 1) % Len(arrays)) + 1][((p - 1) \div Len(arrays)) + 1]]

\* reshaped_data[i] for sequence i (from 1) of beam beam_index
sequence_samples(data, dims, beam_index, i) ==
    column_stack_ravel(
        [x \in 1..dims[1] |->
            [s \in 1..dims[4] |->
                data[DataFlat(dims, x - 1, i - 1, beam_index - 1, s - 1)]]])

\* np.array(reshaped_data).flatten()
flattened_data(data, dims, num_sequences, beam_index) ==
    [p \in 1..(num_sequences * dims[1] * dims[4]) |->
        sequence_samples(data, dims, beam_index,
                         ((p - 1) \div (dims[1] * dims[4])) + 1)[
            ((p - 1) % (dims[1] * dims[4])) + 1]]

\* int_data: real parts at the even positions, imaginary parts at the odd
\* ones (counted from 0), as int16
int_data(flattened) ==
    [j \in 1..(2 * Len(flattened)) |->
        astype_int16(flattened[(j + 1) \div 2][IF j % 2 = 1 THEN 1 ELSE 2])]

\* What building reshaped_data raises: this_data[x, i, :] needs sequence i
\* to exist, and np.column_stack needs an array
samples_error(v) ==
    IF v.num_sequences.val > v.data_dimensions.val[2] THEN "IndexError"
    ELSE IF v.num_sequences.val >= 1 /\ v.data_dimensions.val[1] = 0
    THEN "ValueError"
    ELSE "ok"

\* The beam loop of one bfiq record: data[:, :, beam_index, :] needs the
\* beam dimension to reach beam_index
RECURSIVE bfiq_beam_loop(_, _, _, _, _, _)
bfiq_beam_loop(filename, k, v, data, beam_index, recs) ==
    IF beam_index > Len(v.beam_nums.val) THEN Done(recs)
    ELSE IF beam_index > v.data_dimensions.val[3] THEN Raise("IndexError", k)
    ELSE IF samples_error(v) # "ok" THEN Raise(samples_error(v), k)
    ELSE IF common_fields_error(filename, v, beam_index) # "ok"
    THEN Raise(common_fields_error(filename, v, beam_index), k)
    ELSE
    Once(flattened_data(data, v.data_dimensions.val, v.num_sequences.val,
                        beam_index),
         LAMBDA flattened :
    Once(Append(recs,
             common_fields(filename, k, v, beam_index)
             @@ [nave |-> Scalar("int16", ToInt16(v.num_sequences.val)),
                 seqnum |-> Scalar("int32", v.num_sequences.val),
                 data |-> Array("int16", int_data(flattened))]),
         LAMBDA more :
    bfiq_beam_loop(filename, k, v, data, beam_index + 1, more)))

\* One bfiq record: reshape raises ValueError when the data do not fill
\* the dimensions
bfiq_record(filename, k, v, recs) ==
    LET dims == v.data_dimensions.val
        norm == v.data_normalization_factor.val
    IN  IF Len(v.data.val) # dims[1] * dims[2] * dims[3] * dims[4]
        THEN Raise("ValueError", k)
        ELSE IF before_beams_error(filename, v) # "ok"
        THEN Raise(before_beams_error(filename, v), k)
        ELSE Once([p \in DOMAIN v.data.val |->
                      <<rescale_sample(v.data.val[p][1], norm),
                        rescale_sample(v.data.val[p][2], norm)>>],
                  LAMBDA data :
                      bfiq_beam_loop(filename, k, v, data, 1, recs))

RECURSIVE bfiq_loop(_, _, _)
bfiq_loop(self, i, recs) ==
    IF i > Len(self.borealis_records.keys) THEN Done(recs)
    ELSE Once(bfiq_record(self.filename, self.borealis_records.keys[i],
                  self.borealis_records.val[self.borealis_records.keys[i]],
                  recs),
              LAMBDA r : IF r.kind # "ok" THEN r
                         ELSE bfiq_loop(self, i + 1, r.recs))

\* Nothing in the conversion assigns to v or into one of its arrays: data
\* is a new array, and int_data is allocated by np.empty
convert_bfiq_to_iqdat(self) ==
    Once(bfiq_loop(self, 1, <<>>),
         LAMBDA r : (IF r.kind # "ok" THEN r ELSE Done(dict2dmap(r.recs)))
                    @@ [self |-> self])

----------------------------------------------------------------------------
(* BorealisConvert._convert_rawacf_to_rawacf.  shaped_data[key] is the     *)
(* rescaled copy of the record's array, reshaped to beams x ranges x lags  *)
(* and held here flat, in C order; lag_zero and this_correlation are views *)
(* into it, so writing them writes shaped_data[key].                        *)

\* The position of [beam, range, lag] (counted from 1) in the flat array
Flat(dims, b, r, l) == ((b - 1) * dims[2] + (r - 1)) * dims[3] + l

BeamOf(dims, i)  == (i - 1) \div (dims[2] * dims[3]) + 1
RangeOf(dims, i) == (((i - 1) \div dims[3]) % dims[2]) + 1
LagOf(dims, i)   == ((i - 1) % dims[3]) + 1

\* A variant that leaves lag 0 as it is
lag_zero_write_none(arr, dims, beam_index) == arr

\* lag_zero = arr[beam_index, :, 0]; lag_zero[-10:] = arr[beam_index, -10:, -1]
lag_zero_write(arr, dims, beam_index) ==
    [i \in DOMAIN arr |->
        IF /\ BeamOf(dims, i) = beam_index
           /\ LagOf(dims, i) = 1
           /\ RangeOf(dims, i) > dims[2] - AltLagRanges
        THEN arr[i + dims[3] - 1] ELSE arr[i]]

\* A variant that takes the alternate lag 0 from the first beam
this_correlation_write_from_first_beam(arr, dims, beam_index) ==
    [i \in DOMAIN arr |->
        IF /\ BeamOf(dims, i) = beam_index
           /\ LagOf(dims, i) = 1
           /\ RangeOf(dims, i) > dims[2] - AltLagRanges
        THEN arr[Flat(dims, 1, RangeOf(dims, i), dims[3])]
        ELSE arr[i]]

\* A variant that leaves this_correlation as it is
this_correlation_write_none(arr, dims, beam_index) == arr

\* this_correlation = arr[beam_index, :, :-1];
\* this_correlation[-10:, 0] = arr[beam_index, -10:, -1]
this_correlation_write(arr, dims, beam_index) ==
    [i \in DOMAIN arr |->
        IF /\ BeamOf(dims, i) = beam_index
           /\ LagOf(dims, i) = 1
           /\ RangeOf(dims, i) > dims[2] - AltLagRanges
        THEN arr[Flat(dims, beam_index, RangeOf(dims, i), dims[3])]
        ELSE arr[i]]

\* new_data: this_correlation flattened, real and imaginary parts as
\* float32, shaped ranges x (lags - 1) x 2
new_data(arr, dims, beam_index) ==
    [j \in 1..(dims[2] * (dims[3] - 1)) |->
        LET z == arr[Flat(dims, beam_index,
                          ((j - 1) \div (dims[3] - 1)) + 1,
                          ((j - 1) % (dims[3] - 1)) + 1)]
        IN  <<ToFloat32(z[1]), ToFloat32(z[2])>>]

\* The record_dict of one beam: with_lag_zero is shaped_data['main_acfs']
\* as the lag_zero write has left it, written is shaped_data after the
\* this_correlation writes of this beam.  pwr0 is lag_zero_power, that is
\* (lag_zero.real**2 + lag_zero.imag**2)**0.5, as float32.
rawacf_record_dict(filename, k, v, with_lag_zero, written, beam_index) ==
    LET dims == v.correlation_dimensions.val
    IN  common_fields(filename, k, v, beam_index)
        @@ [mplgs |-> Scalar("int16", ToInt16(Len(v.lags.val) - 1)),
            nrang |-> Scalar("int16", ToInt16(dims[2])),
            pwr0  |-> Array("float32",
                         [r \in 1..dims[2] |->
                             ToFloat32(Magnitude(
                                 with_lag_zero[Flat(dims, beam_index, r, 1)]))]),
            acfd  |-> Array("float32",
                         new_data(written.main_acfs, dims, beam_index)),
            xcfd  |-> Array("float32",
                         new_data(written.xcfs, dims, beam_index))]

\* The beam loop of one rawacf record.  With a single lag this_correlation
\* has no column, and this_correlation[-10:, 0] is an IndexError (the
\* lag_zero write before it copies lag 0 onto itself).  The record_dict is
\* built after the writes of its beam.  The result carries shaped_data as
\* the loop has left it.
RECURSIVE rawacf_beam_loop(_, _, _, _, _, _)
rawacf_beam_loop(filename, k, v, shaped_data, beam_index, recs) ==
    LET dims == v.correlation_dimensions.val
    IN  IF beam_index > Len(v.beam_nums.val)
        THEN Done(recs) @@ [shaped_data |-> shaped_data]
        ELSE IF beam_index > dims[1] \/ dims[3] < 2
        THEN Raise("IndexError", k) @@ [shaped_data |-> shaped_data]
        ELSE
        Once(lag_zero_write(shaped_data.main_acfs, dims, beam_index),
             LAMBDA with_lag_zero :
        Once([key \in DOMAIN shaped_data |->
                 this_correlation_write(
                     IF key = "main_acfs" THEN with_lag_zero
                     ELSE shaped_data[key], dims, beam_index)],
             LAMBDA written :
        IF common_fields_error(filename, v, beam_index) # "ok"
        THEN Raise(common_fields_error(filename, v, beam_index), k)
             @@ [shaped_data |-> written]
        ELSE
        Once(Append(recs, rawacf_record_dict(filename, k, v, with_lag_zero,
                                             written, beam_index)),
             LAMBDA more :
        rawacf_beam_loop(filename, k, v, written, beam_index + 1, more))))

CorrelationKeys == {"main_acfs", "intf_acfs", "xcfs"}

\* A variant in which shaped_data[key] is a view of v[key]
shaped_data_buffer_view(key) == <<"v", key>>

\* The memory shaped_data[key] occupies: v[key].reshape(...) is a view of
\* v[key], but astype(np.complex128) returns a new array and so does the
\* product with the scale, so shaped_data[key] has a buffer of its own and
\* the views lag_zero and this_correlation write there
shaped_data_buffer(key) == <<"shaped_data", key>>

\* The source record once the beam loop has written shaped_data: v[key]
\* holds what was written if the writes went to its buffer
source_after(v, shaped_data) ==
    [key \in DOMAIN v |->
        IF key \in DOMAIN shaped_data /\ shaped_data_buffer(key) = <<"v", key>>
        THEN [v[key] EXCEPT !.val = shaped_data[key]]
        ELSE v[key]]

\* One rawacf record: reshape raises ValueError when an array does not
\* fill the dimensions.  The result carries the source record as the
\* conversion has left it.
rawacf_record(filename, k, v, recs) ==
    LET dims == v.correlation_dimensions.val
        norm == v.data_normalization_factor.val
    IN  IF \E key \in CorrelationKeys :
               Len(v[key].val) # dims[1] * dims[2] * dims[3]
        THEN Raise("ValueError", k) @@ [v |-> v]
        ELSE IF before_beams_error(filename, v) # "ok"
        THEN Raise(before_beams_error(filename, v), k) @@ [v |-> v]
        ELSE Once([key \in CorrelationKeys |->
                      rescale_correlations(v[key].val, norm)],
                  LAMBDA shaped_data :
        Once(rawacf_beam_loop(filename, k, v, shaped_data, 1, recs),
                  LAMBDA r :
                      [kind |-> r.kind, record_name |-> r.record_name,
                       recs |-> r.recs,
                       v |-> source_after(v, r.shaped_data)]))

\* The loop over self._borealis_records.items(); the result carries the
\* object with its records as the conversion has left them
RECURSIVE rawacf_loop(_, _, _)
rawacf_loop(self, i, recs) ==
    IF i > Len(self.borealis_records.keys) THEN Done(recs) @@ [self |-> self]
    ELSE Once(rawacf_record(self.filename, self.borealis_records.keys[i],
                  self.borealis_records.val[self.borealis_records.keys[i]],
                  recs),
              LAMBDA r :
         Once([self EXCEPT
                  !.borealis_records.val[self.borealis_records.keys[i]] = r.v],
              LAMBDA after :
                  IF r.kind # "ok"
                  THEN Raise(r.kind, r.record_name) @@ [self |-> after]
                  ELSE rawacf_loop(after, i + 1, r.recs)))

convert_rawacf_to_rawacf(self) ==
    Once(rawacf_loop(self, 1, <<>>),
         LAMBDA r : IF r.kind # "ok" THEN r
                    ELSE Done(dict2dmap(r.recs)) @@ [self |-> r.self])

----------------------------------------------------------------------------
(* BorealisConvert: construction, write_to_dmap, and the entry points *)

\* BorealisConvert._convert_records_to_dmap; the predicates only read
convert_records_to_dmap(self, dmap_filetype) ==
    IF dmap_filetype = "iqdat"
    THEN LET c == is_convertible_to_iqdat(self)
         IN  IF c.kind # "ok" THEN c @@ [self |-> self]
             ELSE convert_bfiq_to_iqdat(self)
    ELSE IF dmap_filetype = "rawacf"
    THEN LET c == is_convertible_to_rawacf(self)
         IN  IF c.kind # "ok" THEN c @@ [self |-> self]
             ELSE convert_rawacf_to_rawacf(self)
    ELSE Raise("BorealisConversionTypesError", "") @@ [self |-> self]

\* DarnWrite(dmap_records, dmap_filename).write_iqdat / write_rawacf: what
\* the legacy writer is handed
DarnWrite(dmap_records, dmap_filetype, dmap_filename) ==
    [filetype |-> dmap_filetype, filename |-> dmap_filename,
     records |-> dmap_records]

\* A write_to_dmap that clears self._dmap_records before it converts
write_to_dmap_cleared(self, dmap_filetype, dmap_filename) ==
    Once(convert_records_to_dmap(self, dmap_filetype),
         LAMBDA r :
             IF r.kind # "ok"
             THEN [kind |-> r.kind, record_name |-> r.record_name,
                   self |-> [r.self EXCEPT !.dmap_records = <<>>],
                   written |-> <<>>]
             ELSE [kind |-> "ok", record_name |-> "",
                   self |-> [r.self EXCEPT !.dmap_records = r.recs],
                   written |-> <<DarnWrite(r.recs, dmap_filetype,
                                           dmap_filename)>>])

\* BorealisConvert.write_to_dmap: self._dmap_records is assigned when the
\* conversion has returned, and the writer is called after that
write_to_dmap(self, dmap_filetype, dmap_filename) ==
    Once(convert_records_to_dmap(self, dmap_filetype),
         LAMBDA r :
             IF r.kind # "ok"
             THEN [kind |-> r.kind, record_name |-> r.record_name,
                   self |-> r.self, written |-> <<>>]
             ELSE [kind |-> "ok", record_name |-> "",
                   self |-> [r.self EXCEPT !.dmap_records = r.recs],
                   written |-> <<DarnWrite(r.recs, dmap_filetype,
                                           dmap_filename)>>])

\* BorealisRead(filename).read_file(origin_filetype), from first record to
\* last or to the first record that fails a check
RECURSIVE read_borealis_records(_, _, _, _, _)
read_borealis_records(ft, groups, group_names, i, records) ==
    IF i > Len(group_names)
    THEN [kind |-> "ok", record_name |-> "", records |-> records]
    ELSE Once(dd_io_load(groups[group_names[i]]),
              LAMBDA record :
                  IF check_record(ft, record, group_names[i]).kind # "ok"
                  THEN [kind |-> check_record(ft, record,
                                              group_names[i]).kind,
                        record_name |-> group_names[i],
                        records |-> records]
                  ELSE Once(OD_Set(records, group_names[i], record),
                            LAMBDA more :
                                read_borealis_records(ft, groups, group_names,
                                                      i + 1, more)))

\* BorealisConvert(filename): the origin type is the last but one dotted
\* component of the base name
new_converter(f) ==
    LET parts == split_dot(basename(f.path))
        origin == parts[Len(parts) - 1]
    IN  IF Len(parts) < 2
        THEN [kind |-> "IndexError", record_name |-> "",
              self |-> NoConverter]
        ELSE IF origin \notin Filetypes
        THEN [kind |-> "BorealisFileTypeError", record_name |-> "",
              self |-> NoConverter]
        ELSE Once(read_borealis_records(origin, f.groups,
                      sorted_keys(DOMAIN f.groups), 1, OD_Empty),
                  LAMBDA r :
                      IF r.kind # "ok"
                      THEN [kind |-> r.kind, record_name |-> r.record_name,
                            self |-> NoConverter]
                      ELSE [kind |-> "ok", record_name |-> "",
                            self |-> [open |-> TRUE, filename |-> f.path,
                                      origin_filetype |-> origin,
                                      borealis_records |-> r.records,
                                      group_names |->
                                          sorted_keys(DOMAIN r.records.val),
                                      dmap_records |-> <<>>]])

\* borealis_write_to_dmap(filename, dmap_filetype, dmap_filename)
borealis_write_to_dmap(f, dmap_filetype, dmap_filename) ==
    Once(new_converter(f),
         LAMBDA c :
             IF c.kind # "ok"
             THEN [kind |-> c.kind, record_name |-> c.record_name,
                   read |-> TRUE, written |-> <<>>]
             ELSE Once(write_to_dmap(c.self, dmap_filetype, dmap_filename),
                       LAMBDA w :
                           [kind |-> w.kind, record_name |-> w.record_name,
                            read |-> TRUE, written |-> w.written]))

\* settings = {'dmap_filename': default}; settings.update(kwargs)
settings_of(filename, kwargs) ==
    kwargs @@ [dmap_filename |-> default_dmap_filename(filename)]

\* bfiq2darniqdat(filename, **kwargs).  The name ConvertFileOverWriteError
\* is not defined in the module: the raise statement is a NameError.
bfiq2darniqdat(f, kwargs) ==
    IF settings_of(f.path, kwargs).dmap_filename = f.path
    THEN [kind |-> "NameError", record_name |-> "",
          read |-> FALSE, written |-> <<>>]
    ELSE borealis_write_to_dmap(f, "iqdat",
                                settings_of(f.path, kwargs).dmap_filename)

\* rawacf2darnrawacf(filename, **kwargs), with the same undefined name
rawacf2darnrawacf(f, kwargs) ==
    IF settings_of(f.path, kwargs).dmap_filename = f.path
    THEN [kind |-> "NameError", record_name |-> "",
          read |-> FALSE, written |-> <<>>]
    ELSE borealis_write_to_dmap(f, "rawacf",
                                settings_of(f.path, kwargs).dmap_filename)

\* DMap type names a caller may pass: the two supported ones and another
Targets == {"iqdat", "rawacf", "fitacf"}

\* The keyword arguments a caller may pass: none, or a dmap_filename
Kwargs == {<<>>} \cup {[dmap_filename |-> p] : p \in {cv_file.path, OutPath}}

InitConvert ==
    /\ cv_file \in ConvertFiles
    /\ cv = NoConverter
    /\ cv_result = NoConvertCall
    /\ cv_io = NoConvertIO
    /\ IdleCheck /\ IdleIO

\* converter = BorealisConvert(filename)
Construct ==
    /\ ~cv.open
    /\ \E c \in {new_converter(cv_file)} :
           /\ cv' = c.self
           /\ cv_result' = [op |-> "BorealisConvert", kind |-> c.kind,
                            record_name |-> c.record_name, target |-> "",
                            dmap_filename |-> <<>>, before |-> <<>>]
    /\ cv_io' = [read |-> TRUE, written |-> <<>>]
    /\ UNCHANGED cv_file
    /\ UNCHANGED <<ckVars, ioVars>>

\* converter.write_to_dmap(dmap_filetype, dmap_filename)
WriteToDmap(dmap_filetype, dmap_filename) ==
    /\ cv.open
    /\ \E w \in {write_to_dmap(cv, dmap_filetype, dmap_filename)} :
           /\ cv' = w.self
           /\ cv_result' = [op |-> "write_to_dmap", kind |-> w.kind,
                            record_name |-> w.record_name,
                            target |-> dmap_filetype,
                            dmap_filename |-> dmap_filename,
                            before |-> cv.dmap_records]
           /\ cv_io' = [read |-> FALSE, written |-> w.written]
    /\ UNCHANGED cv_file
    /\ UNCHANGED <<ckVars, ioVars>>

\* bfiq2darniqdat(filename, **kwargs), by a caller that holds no converter
Bfiq2DarnIqdat(kwargs) ==
    /\ ~cv.open
    /\ \E e \in {bfiq2darniqdat(cv_file, kwargs)} :
           /\ cv_result' = [op |-> "bfiq2darniqdat", kind |-> e.kind,
                            record_name |-> e.record_name,
                            target |-> "iqdat",
                            dmap_filename |->
                                settings_of(cv_file.path, kwargs).dmap_filename,
                            before |-> <<>>]
           /\ cv_io' = [read |-> e.read, written |-> e.written]
    /\ UNCHANGED <<cv_file, cv>>
    /\ UNCHANGED <<ckVars, ioVars>>

\* rawacf2darnrawacf(filename, **kwargs), by a caller that holds no converter
Rawacf2DarnRawacf(kwargs) ==
    /\ ~cv.open
    /\ \E e \in {rawacf2darnrawacf(cv_file, kwargs)} :
           /\ cv_result' = [op |-> "rawacf2darnrawacf", kind |-> e.kind,
                            record_name |-> e.record_name,
                            target |-> "rawacf",
                            dmap_filename |->
                                settings_of(cv_file.path, kwargs).dmap_filename,
                            before |-> <<>>]
           /\ cv_io' = [read |-> e.read, written |-> e.written]
    /\ UNCHANGED <<cv_file, cv>>
    /\ UNCHANGED <<ckVars, ioVars>>

NextConvert ==
    \/ Construct
    \/ \E t \in Targets : WriteToDmap(t, OutPath)
    \/ \E kwargs \in Kwargs : Bfiq2DarnIqdat(kwargs)
    \/ \E kwargs \in Kwargs : Rawacf2DarnRawacf(kwargs)

----------------------------------------------------------------------------
(* Specifications *)

InitCheckSpec == InitCheck /\ IdleIO /\ IdleConvert

SpecCheck == InitCheckSpec /\ [][NextCheck]_vars

\* A reader on a file found on disk
SpecRead == InitRead /\ [][NextRead]_vars

\* A writer on a new path, and a reader on what it wrote
SpecWrite == InitWrite /\ [][NextWrite]_vars

\* A writer whose collection the caller edits, and a reader on what it wrote
SpecCollections == InitCollections /\ [][NextCollections]_vars

\* A converter, or the two entry points, on a file found on disk
SpecConvert == InitConvert /\ [][NextConvert]_vars

----------------------------------------------------------------------------
(* Properties of the checker *)

\* C1: missing_field_check fails exactly when a declared key (of the
\* attribute or of the dataset fragment) is absent from the record; the
\* error carries the record name and the set (union of schema keys) minus
\* (record keys), which is {k} when exactly one declared key k was removed;
\* on a record holding every declared key it succeeds.
C1_MissingFieldCheck ==
    ck_result.op = "missing" =>
        LET missing == SchemaKeys(ck_type) \ DOMAIN ck_record
        IN  /\ ck_result.record_name = ck_name
            /\ (missing = {}) <=> (ck_result.kind = "ok")
            /\ missing # {} =>
                   /\ ck_result.kind = "BorealisFieldMissingError"
                   /\ ck_result.fields = missing
            /\ \A k \in SchemaKeys(ck_type) :
                   (DOMAIN ck_record \cap SchemaKeys(ck_type)
                        = SchemaKeys(ck_type) \ {k})
                   => ck_result.fields = {k}

\* A dataset key alone was removed and the check named it
C1_Witness ==
    /\ ck_result.op = "missing"
    /\ ck_result.kind = "BorealisFieldMissingError"
    /\ \E k \in DOMAIN array_dtypes(ck_type) : ck_result.fields = {k}
    /\ DOMAIN single_element_types(ck_type) \subseteq DOMAIN ck_record

\* C2: extra_field_check fails exactly when the record holds a key no schema
\* fragment declares; the error carries the record name and the set (record
\* keys) minus (union of the fragments' keys), which is {k} when one
\* undeclared key k was added; without undeclared keys it succeeds.
C2_ExtraFieldCheck ==
    ck_result.op = "extra" =>
        LET extra == DOMAIN ck_record \ SchemaKeys(ck_type)
        IN  /\ ck_result.record_name = ck_name
            /\ (extra = {}) <=> (ck_result.kind = "ok")
            /\ extra # {} =>
                   /\ ck_result.kind = "BorealisExtraFieldError"
                   /\ ck_result.fields = extra
            /\ \A k \in UndeclaredFields :
                   DOMAIN ck_record = SchemaKeys(ck_type) \cup {k}
                   => ck_result.fields = {k}

\* One undeclared key was added to a record with every declared key
C2_Witness ==
    /\ ck_result.op = "extra"
    /\ ck_result.kind = "BorealisExtraFieldError"
    /\ \E k \in UndeclaredFields :
          /\ DOMAIN ck_record = SchemaKeys(ck_type) \cup {k}
          /\ ck_result.fields = {k}

\* C3: on a record with exactly the declared keys in which the set S of
\* fields has been given another type (an attribute another runtime type, a
\* dataset an array of another element type), incorrect_types_check succeeds
\* iff S is empty and otherwise raises one BorealisDataFormatTypeError whose
\* mapping has exactly the keys of S.
C3_TypeCheckAccumulates ==
    (/\ ck_result.op = "types"
     /\ DOMAIN ck_record = SchemaKeys(ck_type)
     /\ ck_nonarray = {})
    => /\ ck_result.record_name = ck_name
       /\ (ck_altered = {}) <=> (ck_result.kind = "ok")
       /\ ck_altered # {} =>
              /\ ck_result.kind = "BorealisDataFormatTypeError"
              /\ {m[1] : m \in ck_result.mapping} = ck_altered

\* An attribute and a dataset were altered together and both are reported
C3_Witness ==
    /\ ck_result.op = "types"
    /\ ck_result.kind = "BorealisDataFormatTypeError"
    /\ DOMAIN ck_record = SchemaKeys(ck_type)
    /\ \E a \in DOMAIN single_element_types(ck_type) :
       \E d \in DOMAIN array_dtypes(ck_type) :
          /\ ck_altered = {a, d}
          /\ {m[1] : m \in ck_result.mapping} = {a, d}

\* C29 as claimed: the type check of a record whose keys are the schema's
\* either succeeds or fails with BorealisDataFormatTypeError, whatever the
\* values of the fields are.
C29_TypeCheckTypedOutcomes ==
    (/\ ck_result.op = "types"
     /\ DOMAIN ck_record = SchemaKeys(ck_type))
    => ck_result.kind \in {"ok", "BorealisDataFormatTypeError"}

\* The type check of a record whose keys are the schema's, with an array in
\* the place of an attribute and no other edit, has failed with
\* BorealisDataFormatTypeError
ArrayForScalarReported ==
    /\ ck_result.op = "types"
    /\ ck_result.kind = "BorealisDataFormatTypeError"
    /\ DOMAIN ck_record = SchemaKeys(ck_type)
    /\ ck_nonarray = {}
    /\ \E k \in DOMAIN single_element_types(ck_type) :
           ck_altered = {k} /\ ck_record[k].kind = "array"

----------------------------------------------------------------------------
(* Properties of the reader and the writer *)

\* The place of a record name in the ascending order of the names
NameIndex(name) == CHOOSE i \in DOMAIN RecordNames : RecordNames[i] = name

\* A record has exactly the declared keys of type ft, each attribute a numpy
\* scalar of the declared type and each dataset of the declared dtype
IsConformant(ft, record) ==
    /\ DOMAIN record = SchemaKeys(ft)
    /\ \A k \in DOMAIN single_element_types(ft) :
          record[k].kind = "scalar" /\ record[k].ty = single_element_types(ft)[k]
    /\ \A k \in DOMAIN array_dtypes(ft) :
          record[k].kind # "native" /\ record[k].ty = array_dtypes(ft)[k]

ReadFailedOnCheck ==
    /\ rd_pc = "idle"
    /\ rd_result.op = "read_file"
    /\ rd_result.kind \in ConformanceErrors

\* C4 as claimed: when read_file fails on a conformance check, the reader's
\* record collection is as it was before the call.
C4_ReadAllOrNothing ==
    ReadFailedOnCheck => rd.records = rd_call.before

\* C4 as amended: when read_file fails on a conformance check of record k, the
\* error carries k and no collection is returned, but the reader's collection
\* keeps what the call inserted before the failure: every group sorting
\* before k is in it with the record loaded from the file, which is
\* conformant, while k and the groups after it are as they were before the
\* call (absent, unless an earlier call inserted them).
C4_ReadKeepsPrefix ==
    ReadFailedOnCheck =>
        LET i == rd_call.idx
            names == rd.group_names
        IN  /\ rd_result.record_name = names[i]
            /\ rd.current_record_name = names[i]
            /\ \A j \in 1..(i - 1) :
                  /\ names[j] \in DOMAIN rd.records.val
                  /\ rd.records.val[names[j]] =
                        dd_io_load(file.groups[names[j]])
                  /\ IsConformant(rd_call.ft, rd.records.val[names[j]])
            /\ \A j \in i..Len(names) :
                  IF names[j] \in DOMAIN rd_call.before.val
                  THEN /\ names[j] \in DOMAIN rd.records.val
                       /\ rd.records.val[names[j]] =
                             rd_call.before.val[names[j]]
                  ELSE names[j] \notin DOMAIN rd.records.val
            /\ DOMAIN rd.records.val =
                  DOMAIN rd_call.before.val \cup {names[j] : j \in 1..(i - 1)}
            /\ Range(rd.records.keys) = DOMAIN rd.records.val

\* A read that failed on its second record and kept the first
C4_Witness ==
    /\ ReadFailedOnCheck
    /\ rd_call.idx = 2
    /\ rd_call.before = OD_Empty
    /\ rd.records.keys = <<rd.group_names[1]>>

\* C10 as claimed: a collection of one or more conformant records written
\* with write_file to a new path and read back with read_file of the same
\* type comes back equal: the same names in the same order, each record with
\* the same fields, values and types.
C10_RoundTrip ==
    (/\ rd_fresh
     /\ rd_pc = "idle"
     /\ rd_result.op = "read_file"
     /\ rd_result.kind = "ok"
     /\ wr_result.kind = "ok"
     /\ rd_result.ft = wr_result.ft
     /\ wr.borealis_records.keys # <<>>)
    => rd.records = wr.borealis_records

WriteFailedOnCheck ==
    /\ wr_pc = "idle"
    /\ wr_result.op = "write_file"
    /\ wr_result.kind \in ConformanceErrors

C12_UnsupportedRecordType ==
    [][\A ft \in RequestedTypes \ Filetypes :
          /\ ReadFile(ft) =>
                /\ rd_result' = CallResult("read_file", ft,
                       Outcome("BorealisFileTypeError", "", {}, {}))
                /\ rd' = rd
                /\ rd_pc' = rd_pc
                /\ file' = file
          /\ WriteFile(ft) =>
                /\ wr_result' = CallResult("write_file", ft,
                       Outcome("BorealisFileTypeError", "", {}, {}))
                /\ file' = file
                /\ wr' = wr
                /\ wr_pc' = wr_pc]_vars

\* A reader holding what it read and a writer that has written its two
\* records were both called with an unknown type name: the record read, the
\* cursors and the file written are still there
C12_Witness ==
    /\ rd_result.op = "read_file"
    /\ rd_result.kind = "BorealisFileTypeError"
    /\ Len(rd.records.keys) >= 1
    /\ rd.current_record_name # ""
    /\ wr_result.op = "write_file"
    /\ wr_result.kind = "BorealisFileTypeError"
    /\ Len(wr.group_names) = 2
    /\ wr.current_record_name = wr.group_names[2]
    /\ file.exists

\* C22: every record a step puts into the reader's collection (a new name,
\* or a new value under a name) is put there by a running read_file call
\* and is conformant to the type that call was given; and every group a
\* step serializes to the file is serialized by a running write_file call,
\* from a record of the writer's collection that is conformant to the type
\* that call was given.  Conformant: the record's keys are the declared
\* attributes and datasets of the type, and every value has the declared
\* type.
C22_ConformanceInvariant ==
    [][/\ \A name \in DOMAIN rd'.records.val :
             (\/ name \notin DOMAIN rd.records.val
              \/ rd'.records.val[name] # rd.records.val[name])
             => /\ rd_pc = "reading"
                /\ IsConformant(rd_call.ft, rd'.records.val[name])
       /\ file' # file =>
             /\ wr_pc = "writing"
             /\ \A name \in DOMAIN file'.groups :
                    (\/ name \notin DOMAIN file.groups
                     \/ file'.groups[name] # file.groups[name])
                    => /\ name \in DOMAIN wr.borealis_records.val
                       /\ file'.groups[name] =
                              H5Group(wr.borealis_records.val[name])
                       /\ IsConformant(wr_call.ft,
                                       wr.borealis_records.val[name])]_vars

\* A write_file call has serialized two records, and a reader on the file
\* holds a record it read from it
C22_Witness ==
    /\ Len(wr.group_names) = 2
    /\ wr_result.op = "write_file"
    /\ wr_result.kind = "ok"
    /\ Len(wr_call.saved) = 2
    /\ rd_result.op = "read_file"
    /\ rd_result.kind = "ok"
    /\ rd.records.keys # <<>>
    /\ IsConformant(rd_result.ft,
                    rd.records.val[rd.records.keys[1]])

\* The outcome the order missing -> extra -> type gives a record that is
\* not conformant to type ft
EarliestCheck(ft, record) ==
    IF SchemaKeys(ft) \ DOMAIN record # {} THEN "BorealisFieldMissingError"
    ELSE IF DOMAIN record \ SchemaKeys(ft) # {}
    THEN "BorealisExtraFieldError"
    ELSE "BorealisDataFormatTypeError"

\* The record a failed read_file call loaded last
ReadFailedRecord == dd_io_load(file.groups[rd_result.record_name])

\* The record a failed write_file call checked last
WriteFailedRecord == wr.borealis_records.val[wr_result.record_name]

\* C23: a read_file or write_file call that fails on a conformance check
\* reports the earliest check its record fails in the order missing ->
\* extra -> type: a missing field is reported whatever else is wrong, an
\* extra field is reported when no field is missing, and a type error is
\* reported only for a record whose key set is the schema's.
C23_CheckOrdering ==
    /\ ReadFailedOnCheck =>
           /\ rd_result.kind = EarliestCheck(rd_result.ft, ReadFailedRecord)
           /\ rd_result.kind = "BorealisDataFormatTypeError" =>
                  DOMAIN ReadFailedRecord = SchemaKeys(rd_result.ft)
    /\ WriteFailedOnCheck =>
           /\ wr_result.kind = EarliestCheck(wr_result.ft, WriteFailedRecord)
           /\ wr_result.kind = "BorealisDataFormatTypeError" =>
                  DOMAIN WriteFailedRecord = SchemaKeys(wr_result.ft)

\* A write_file call has failed with the missing-field error on a record
\* that also has an extra field
C23_Witness ==
    /\ WriteFailedOnCheck
    /\ wr_result.kind = "BorealisFieldMissingError"
    /\ SchemaKeys(wr_result.ft) \ DOMAIN WriteFailedRecord # {}
    /\ DOMAIN WriteFailedRecord \ SchemaKeys(wr_result.ft) # {}

\* A write_file call has failed with the extra-field error on a record
\* that also has a field of another type than declared
ExtraBeforeType ==
    /\ WriteFailedOnCheck
    /\ wr_result.kind = "BorealisExtraFieldError"
    /\ \E k \in SchemaKeys(wr_result.ft) :
           WriteFailedRecord[k].ty # ConformantRecord(wr_result.ft)[k].ty

\* C24: when read_file or write_file fails on a conformance check, the
\* record name the error carries is the object's current_record_name, and
\* it names the first record, in ascending order of the names, that is not
\* conformant to the requested type: the record is not conformant, and
\* every record whose name sorts before it is.
C24_FailureAttribution ==
    /\ ReadFailedOnCheck =>
           /\ rd_result.record_name = rd.current_record_name
           /\ rd_result.record_name \in DOMAIN file.groups
           /\ ~IsConformant(rd_result.ft, ReadFailedRecord)
           /\ \A name \in DOMAIN file.groups :
                  NameIndex(name) < NameIndex(rd_result.record_name)
                  => IsConformant(rd_result.ft,
                                  dd_io_load(file.groups[name]))
    /\ WriteFailedOnCheck =>
           /\ wr_result.record_name = wr.current_record_name
           /\ wr_result.record_name \in DOMAIN wr.borealis_records.val
           /\ ~IsConformant(wr_result.ft, WriteFailedRecord)
           /\ \A name \in DOMAIN wr.borealis_records.val :
                  NameIndex(name) < NameIndex(wr_result.record_name)
                  => IsConformant(wr_result.ft,
                                  wr.borealis_records.val[name])

\* A write_file call has failed at the record that sorts second, which the
\* caller inserted first, the record sorting first being conformant
C24_Witness ==
    /\ WriteFailedOnCheck
    /\ Len(wr.borealis_records.keys) = 2
    /\ wr_result.record_name = wr.borealis_records.keys[1]
    /\ NameIndex(wr.borealis_records.keys[2])
           < NameIndex(wr.borealis_records.keys[1])
    /\ wr.current_record_name = wr_result.record_name

\* C25 as claimed: in every state, a reader's group_names are the keys of
\* its record collection, in ascending order, and so are a writer's.
C25_CollectionInvariant ==
    /\ rd_pc # "closed" =>
           rd.group_names = sorted_keys(DOMAIN rd.records.val)
    /\ wr.group_names = sorted_keys(DOMAIN wr.borealis_records.val)

\* A step of a write_file call
WriteStep == (\E ft \in RequestedTypes : WriteCall(ft)) \/ WriteRecord

\* C25, amended: the name list is fixed at construction.  A writer's
\* group_names are the keys, in ascending order, of the collection it is
\* constructed with; no step changes them, and write_file does not change
\* the collection, so the two differ once the caller has added or removed
\* an entry.  A reader's group_names change only when a reader is
\* constructed, with an empty collection; the keys of its collection are
\* always among its group_names, and they are all of them, in ascending
\* order, when a read_file call has returned without error.
C25_NameListFixedAtConstruction ==
    /\ wr.group_names = sorted_keys(DOMAIN wr.borealis_records.val)
    /\ [](/\ DOMAIN rd.records.val \subseteq Range(rd.group_names)
          /\ Range(rd.records.keys) = DOMAIN rd.records.val
          /\ (rd_result.op = "read_file" /\ rd_result.kind = "ok") =>
                 /\ Range(rd.group_names) = DOMAIN rd.records.val
                 /\ \A i, j \in DOMAIN rd.group_names :
                        i < j => NameIndex(rd.group_names[i])
                                     < NameIndex(rd.group_names[j]))
    /\ [][/\ wr'.group_names = wr.group_names
          /\ WriteStep => wr'.borealis_records = wr.borealis_records
          /\ rd'.group_names # rd.group_names => rd'.records = OD_Empty]_vars

\* The caller has added an entry to the collection of a writer constructed
\* on one record; write_file has then returned without error, having saved
\* the one record of the name list, and a reader has read the file
C25_Witness ==
    /\ Len(wr.group_names) = 1
    /\ Len(wr.borealis_records.keys) = 2
    /\ wr.group_names[1] \in DOMAIN wr.borealis_records.val
    /\ wr_result.op = "write_file"
    /\ wr_result.kind = "ok"
    /\ wr_call.saved = wr.group_names
    /\ rd_result.op = "read_file"
    /\ rd_result.kind = "ok"
    /\ rd.group_names = wr.group_names

\* The group names a running read_file call has passed: those before its
\* cursor's next value
NamesPassed == {rd.group_names[j] : j \in 1..(rd_call.idx - 1)}

\* C26: a read_file call starts at the first of the reader's group names,
\* which are in ascending order; each of its steps sets the cursor to the
\* next group name and then loads, checks and inserts that record, so the
\* cursor takes the group names in order, each once.  Before a step the
\* names the call has inserted are the group names before the one the step
\* takes; a step that fails leaves the collection as it is, the cursor at
\* the failing name, and ends the call; a step that succeeds puts the
\* loaded record under the cursor's name, after the keys already there,
\* and the step that succeeds on the last name ends the call with the
\* collection's keys in the order of the group names.
C26_ReaderProgression ==
    [][/\ (rd_pc = "idle" /\ rd_pc' = "reading") =>
              /\ rd_call'.idx = 1
              /\ rd' = rd
       /\ rd_pc = "reading" =>
              LET i == rd_call.idx
                  name == rd.group_names[i]
              IN  /\ \A j \in 1..(Len(rd.group_names) - 1) :
                         NameIndex(rd.group_names[j])
                             < NameIndex(rd.group_names[j + 1])
                  /\ rd'.current_record_name = name
                  /\ i > 1 => rd.current_record_name = rd.group_names[i - 1]
                  /\ DOMAIN rd.records.val
                         = DOMAIN rd_call.before.val \cup NamesPassed
                  /\ \A j \in 1..(i - 1) :
                         rd.records.keys[j] = rd.group_names[j]
                  /\ rd'.group_names = rd.group_names
                  /\ \/ /\ rd_result'.kind \notin {"ok", "none"}
                        /\ rd_pc' = "idle"
                        /\ rd'.records = rd.records
                     \/ /\ DOMAIN rd'.records.val
                               = DOMAIN rd.records.val \cup {name}
                        /\ rd'.records.val[name]
                               = dd_io_load(file.groups[name])
                        /\ \A j \in 1..i :
                               rd'.records.keys[j] = rd.group_names[j]
                        /\ IF i = Len(rd.group_names)
                           THEN /\ rd_pc' = "idle"
                                /\ rd_result'.kind = "ok"
                                /\ rd'.records.keys = rd.group_names
                           ELSE /\ rd_pc' = "reading"
                                /\ rd_call'.idx = i + 1]_vars

\* A read_file call on a file of MaxRecords groups has returned without
\* error: the cursor is at the last group name and the collection's keys
\* are the group names in order
C26_Witness ==
    /\ rd_pc = "idle"
    /\ rd_result.op = "read_file"
    /\ rd_result.kind = "ok"
    /\ Len(rd.group_names) = MaxRecords
    /\ rd.current_record_name = rd.group_names[MaxRecords]
    /\ rd.records.keys = rd.group_names

----------------------------------------------------------------------------
(* Properties of the converter.  They are stated against the input file:   *)
(* SourceNames are its record names in ascending order, and a record's     *)
(* field f is cv_file.groups[name][f].data.                                 *)

SourceNames == sorted_keys(DOMAIN cv_file.groups)

\* The origin type the file name carries
FileOrigin ==
    LET parts == split_dot(basename(cv_file.path))
    IN  IF Len(parts) < 2 THEN "" ELSE parts[Len(parts) - 1]

\* The number of beams of the source records before the i-th
RECURSIVE BeamsBefore(_)
BeamsBefore(i) ==
    IF i <= 1 THEN 0
    ELSE BeamsBefore(i - 1)
         + Len(cv_file.groups[SourceNames[i - 1]].beam_nums.data)

\* The last call ran a conversion of the file, or of the converter's
\* records, to the DMap type that goes with the file's origin type
ConvertCalled ==
    /\ <<FileOrigin, cv_result.target>>
           \in {<<"bfiq", "iqdat">>, <<"rawacf", "rawacf">>}
    /\ \/ cv_result.op = "write_to_dmap"
       \/ /\ cv_result.op \in {"bfiq2darniqdat", "rawacf2darnrawacf"}
          /\ cv_result.dmap_filename # cv_file.path
          /\ \A name \in DOMAIN cv_file.groups :
                IsConformant(FileOrigin, dd_io_load(cv_file.groups[name]))

\* C5 as claimed: write_to_dmap for a pair of origin and target type other
\* than bfiq -> iqdat and rawacf -> rawacf fails with
\* BorealisConversionTypesError, and with no other error.
C5_UnsupportedConversion ==
    (/\ cv_result.op = "write_to_dmap"
     /\ <<cv.origin_filetype, cv_result.target>>
            \notin {<<"bfiq", "iqdat">>, <<"rawacf", "rawacf">>})
    => cv_result.kind = "BorealisConversionTypesError"

\* C6 as claimed: bfiq2darniqdat and rawacf2darnrawacf called with an output
\* path (the default or the caller's dmap_filename) equal to the input path
\* fail with ConvertFileOverWriteError, before the input is read and before
\* anything is written.
C6_OverwriteProtection ==
    (/\ cv_result.op \in {"bfiq2darniqdat", "rawacf2darnrawacf"}
     /\ cv_result.dmap_filename = cv_file.path)
    => /\ cv_result.kind = "ConvertFileOverWriteError"
       /\ ~cv_io.read
       /\ cv_io.written = <<>>

\* blanked_samples differs from pulses * floor(tau_spacing / tx_pulse_len)
PulseBlankingViolated(g) ==
    g.blanked_samples.data #
        [i \in DOMAIN g.pulses.data |->
            g.pulses.data[i] * (g.tau_spacing.data \div g.tx_pulse_len.data)]

\* C7: on both conversion paths, if some record of the collection has
\* blanked_samples not element-wise equal to
\* pulses * floor(tau_spacing / tx_pulse_len) (every tx_pulse_len being
\* positive, so that the quotient exists), the conversion fails with the
\* error of its target (BorealisConvert2IqdatError /
\* BorealisConvert2RawacfError), hands no record to the legacy writer and
\* leaves the converter's dmap_records as they were, whatever the records
\* before the offending one are.
C7_PulseBlankingPredicate ==
    (/\ ConvertCalled
     /\ \A name \in DOMAIN cv_file.groups :
           cv_file.groups[name].tx_pulse_len.data >= 1
     /\ \E name \in DOMAIN cv_file.groups :
           PulseBlankingViolated(cv_file.groups[name]))
    => /\ cv_result.kind = IF cv_result.target = "iqdat"
                           THEN "BorealisConvert2IqdatError"
                           ELSE "BorealisConvert2RawacfError"
       /\ cv_io.written = <<>>
       /\ cv_result.op = "write_to_dmap"
              => cv.dmap_records = cv_result.before

\* A conversion refused for its second record, the first being a
\* convertible record with a beam
C7_Witness ==
    /\ ConvertCalled
    /\ cv_result.kind = "BorealisConvert2RawacfError"
    /\ Len(SourceNames) = 2
    /\ ~PulseBlankingViolated(cv_file.groups[SourceNames[1]])
    /\ Len(cv_file.groups[SourceNames[1]].beam_nums.data) >= 1
    /\ cv_file.groups[SourceNames[1]].station.data \in DOMAIN code_to_stid
    /\ PulseBlankingViolated(cv_file.groups[SourceNames[2]])
    /\ cv_result.record_name = SourceNames[2]

\* z scaled by 32767^2 / norm^2
ScaledBy(z, norm) ==
    <<z[1] * ((32767 * 32767) \div (norm * norm)),
      z[2] * ((32767 * 32767) \div (norm * norm))>>

\* The power expected at range r of beam b of source record g: the
\* magnitude of the rescaled main_acfs entry at the last lag for the last
\* 10 ranges, at lag 0 for the others
ExpectedPwr0(g, b, r) ==
    LET dims == g.correlation_dimensions.data
        lag  == IF r > dims[2] - 10 THEN dims[3] ELSE 1
    IN  ToFloat32(Magnitude(
            ScaledBy(g.main_acfs.data[((b - 1) * dims[2] + (r - 1)) * dims[3]
                                      + lag],
                     g.data_normalization_factor.data)))

\* C8: in every rawacf conversion that succeeds, for every source record
\* and every beam of it, the emitted pwr0 has one entry per range, which is
\* the magnitude of the rescaled main_acfs[beam, range, last lag] for each
\* of the last 10 ranges and of the rescaled main_acfs[beam, range, 0] for
\* every other range.
C8_AlternateLagZeroPower ==
    (cv_io.written # <<>> /\ cv_io.written[1].filetype = "rawacf") =>
        \A recs \in {cv_io.written[1].records} :
        \A i \in DOMAIN SourceNames :
        \A g \in {cv_file.groups[SourceNames[i]]} :
        \A b \in DOMAIN g.beam_nums.data :
            /\ BeamsBefore(i) + b \in DOMAIN recs
            /\ DOMAIN recs[BeamsBefore(i) + b].pwr0.val
                   = 1..g.correlation_dimensions.data[2]
            /\ \A r \in 1..g.correlation_dimensions.data[2] :
                   recs[BeamsBefore(i) + b].pwr0.val[r] = ExpectedPwr0(g, b, r)

\* A converted rawacf record of two beams or more and more than 10 ranges,
\* whose last range has a power other than that of its lag 0, and whose
\* first range has the power of its lag 0
C8_Witness ==
    /\ cv_io.written # <<>>
    /\ cv_io.written[1].filetype = "rawacf"
    /\ \E i \in DOMAIN SourceNames :
       \E g \in {cv_file.groups[SourceNames[i]]} :
           /\ Len(g.beam_nums.data) >= 2
           /\ g.correlation_dimensions.data[2] > 10
           /\ \E nr \in {g.correlation_dimensions.data[2]} :
              \E pwr0 \in {cv_io.written[1].records[BeamsBefore(i) + 2].pwr0.val} :
                  /\ pwr0[nr] # ToFloat32(Magnitude(ScaledBy(
                         g.main_acfs.data[
                             (nr + (nr - 1)) * g.correlation_dimensions.data[3] + 1],
                         g.data_normalization_factor.data)))
                  /\ pwr0[1] = ToFloat32(Magnitude(ScaledBy(
                         g.main_acfs.data[
                             nr * g.correlation_dimensions.data[3] + 1],
                         g.data_normalization_factor.data)))

\* C9: in every conversion that succeeds, each source record yields one
\* legacy record per entry of its beam_nums, in the order of the entries:
\* the legacy record has that entry as bmnum and the entry of beam_azms at
\* the same index as bmazm, and comes from that source record; the legacy
\* records are as many as the beam_nums entries of all source records.
C9_FanOut ==
    cv_io.written # <<>> =>
        \A recs \in {cv_io.written[1].records} :
            /\ Len(recs) = BeamsBefore(Len(SourceNames) + 1)
            /\ \A i \in DOMAIN SourceNames :
               \A g \in {cv_file.groups[SourceNames[i]]} :
               \A b \in DOMAIN g.beam_nums.data :
                   /\ recs[BeamsBefore(i) + b].bmnum.val = g.beam_nums.data[b]
                   /\ recs[BeamsBefore(i) + b].bmazm.val = g.beam_azms.data[b]
                   /\ recs[BeamsBefore(i) + b].combf.val.record = SourceNames[i]
                   /\ recs[BeamsBefore(i) + b].combf.val.beams
                          = Len(g.beam_nums.data)

\* Two source records, of two beams or more and of one beam, converted to
\* iqdat records
C9_Witness ==
    /\ cv_io.written # <<>>
    /\ cv_io.written[1].filetype = "iqdat"
    /\ Len(SourceNames) = 2
    /\ Len(cv_file.groups[SourceNames[1]].beam_nums.data) >= 2
    /\ Len(cv_file.groups[SourceNames[2]].beam_nums.data) = 1
    /\ Len(cv_io.written[1].records)
           = Len(cv_file.groups[SourceNames[1]].beam_nums.data) + 1

\* The position in the source record's beam_nums of the beam a legacy
\* record was made for (the beam numbers of a record are distinct)
BeamIndexOf(rec) ==
    CHOOSE b \in DOMAIN cv_file.groups[rec.combf.val.record].beam_nums.data :
        cv_file.groups[rec.combf.val.record].beam_nums.data[b] = rec.bmnum.val

\* C13: the legacy records handed to the writer are ordered by ascending
\* source record name and, within one source record, by ascending position
\* of the beam in beam_nums; hence the records of one source record are
\* contiguous.
C13_OutputOrder ==
    cv_io.written # <<>> =>
        \A recs \in {cv_io.written[1].records} :
        \A p, q \in DOMAIN recs :
            p < q =>
                \/ NameIndex(recs[p].combf.val.record)
                       < NameIndex(recs[q].combf.val.record)
                \/ /\ recs[p].combf.val.record = recs[q].combf.val.record
                   /\ BeamIndexOf(recs[p]) < BeamIndexOf(recs[q])

\* Two rawacf source records, the first with two beams or more, converted:
\* the first legacy records come from the first name, the last from the
\* second
C13_Witness ==
    /\ cv_io.written # <<>>
    /\ cv_io.written[1].filetype = "rawacf"
    /\ \E recs \in {cv_io.written[1].records} :
          /\ Len(recs) >= 3
          /\ recs[1].combf.val.record = RecordNames[1]
          /\ recs[2].combf.val.record = RecordNames[1]
          /\ recs[1].bmnum.val # recs[2].bmnum.val
          /\ recs[Len(recs)].combf.val.record = RecordNames[2]

\* C14: no call of write_to_dmap changes the converter's source records:
\* whether the call succeeds or fails, whatever the target and the number
\* of beams, self._borealis_records after the call equals
\* self._borealis_records before it, name by name and field by field, and
\* still equals what was read from the file; the alternate lag-0 writes of
\* the rawacf conversion leave main_acfs, intf_acfs and xcfs of the source
\* as they were.
C14_InputNotMutated ==
    [][cv.open =>
          /\ cv'.borealis_records = cv.borealis_records
          /\ \A name \in DOMAIN cv_file.groups :
                cv'.borealis_records.val[name] =
                    dd_io_load(cv_file.groups[name])]_vars

\* A rawacf conversion that succeeded on a record with a beam whose lag-0
\* and last-lag values differ at the last range, so that the substitution
\* wrote another value into the rescaled array, and the source record still
\* holds its lag-0 value
C14_Witness ==
    /\ cv.open
    /\ cv_result.op = "write_to_dmap"
    /\ cv_result.kind = "ok"
    /\ cv_result.target = "rawacf"
    /\ \E name \in DOMAIN cv.borealis_records.val :
       \E v \in {cv.borealis_records.val[name]} :
       \E dims \in {v.correlation_dimensions.val} :
          /\ Len(v.beam_nums.val) >= 1
          /\ dims[3] >= 2
          /\ v.main_acfs.val[Flat(dims, 1, dims[2], 1)]
                 # v.main_acfs.val[Flat(dims, 1, dims[2], dims[3])]
          /\ v.main_acfs.val[Flat(dims, 1, dims[2], 1)]
                 = cv_file.groups[name].main_acfs.data[Flat(dims, 1, dims[2], 1)]

\* The entry expected at range r and lag l (counted from 1) of the array
\* emitted for beam b from the source array g[key]: the rescaled source
\* entry at the same range and lag, but at the last lag when l is lag 0 and
\* r is one of the last 10 ranges; real and imaginary part as float32
ExpectedCorrelation(g, key, b, r, l) ==
    LET dims == g.correlation_dimensions.data
        lag  == IF l = 1 /\ r > dims[2] - 10 THEN dims[3] ELSE l
        z    == ScaledBy(g[key].data[((b - 1) * dims[2] + (r - 1)) * dims[3]
                                     + lag],
                         g.data_normalization_factor.data)
    IN  <<ToFloat32(z[1]), ToFloat32(z[2])>>

\* C15: in every rawacf conversion that succeeds, for every source record
\* and every beam of it, acfd (from main_acfs) and xcfd (from xcfs) each
\* hold num_ranges x (num_lags - 1) complex entries, mplgs being the number
\* of lags minus one; the entry at lag 0 is the rescaled source value at the
\* last lag for the last 10 ranges and at lag 0 for the other ranges, and
\* the entry at each further lag up to num_lags - 2 is the rescaled source
\* value at the same range and lag.
C15_EmittedCorrelations ==
    (cv_io.written # <<>> /\ cv_io.written[1].filetype = "rawacf") =>
        \A recs \in {cv_io.written[1].records} :
        \A i \in DOMAIN SourceNames :
        \A g \in {cv_file.groups[SourceNames[i]]} :
        \A b \in DOMAIN g.beam_nums.data :
        \A rec \in {recs[BeamsBefore(i) + b]} :
        \A nr \in {g.correlation_dimensions.data[2]} :
        \A nl \in {g.correlation_dimensions.data[3]} :
            /\ rec.mplgs.val = Len(g.lags.data) - 1
            /\ rec.mplgs.val = nl - 1
            /\ \A pair \in {<<"main_acfs", "acfd">>, <<"xcfs", "xcfd">>} :
                  /\ DOMAIN rec[pair[2]].val = 1..(nr * (nl - 1))
                  /\ \A r \in 1..nr : \A l \in 1..(nl - 1) :
                        rec[pair[2]].val[(r - 1) * (nl - 1) + l]
                            = ExpectedCorrelation(g, pair[1], b, r, l)

\* A converted rawacf record of more than 10 ranges and three lags or
\* more: the cross-correlation emitted at lag 0 is the source's lag 0 for
\* the first range and is not the source's lag 0 for the last range, and
\* there is a lag between lag 0 and the dropped one
C15_Witness ==
    /\ cv_io.written # <<>>
    /\ cv_io.written[1].filetype = "rawacf"
    /\ \E i \in DOMAIN SourceNames :
       \E g \in {cv_file.groups[SourceNames[i]]} :
       \E nr \in {g.correlation_dimensions.data[2]} :
       \E nl \in {g.correlation_dimensions.data[3]} :
           /\ Len(g.beam_nums.data) >= 1
           /\ nr > 10
           /\ nl >= 3
           /\ \E xcfd \in {cv_io.written[1].records[BeamsBefore(i) + 1].xcfd.val} :
                 /\ Len(xcfd) = nr * (nl - 1)
                 /\ xcfd[1] = ScaledBy(g.xcfs.data[1],
                                       g.data_normalization_factor.data)
                 /\ xcfd[(nr - 1) * (nl - 1) + 1]
                        # ScaledBy(g.xcfs.data[(nr - 1) * nl + 1],
                                   g.data_normalization_factor.data)

\* Some entry of pulse_phase_offset is not zero
PhaseOffsetNonZero(g) ==
    \E x \in DOMAIN g.pulse_phase_offset.data : g.pulse_phase_offset.data[x] # 0

EmittedComponent(c, norm) ==
    IF c >= 0 THEN (c * 32767) \div norm ELSE -(((-c) * 32767) \div norm)

\* The source sample of beam b, sequence i, antenna array x and sample s
\* (all from 0) of the bfiq record g
SourceSample(g, x, i, b, s) ==
    LET dims == g.data_dimensions.data
    IN  g.data.data[((x * dims[2] + i) * dims[3] + b) * dims[4] + s + 1]

\* C17 as claimed: in every bfiq conversion that succeeds, the data emitted
\* for a beam hold, for sequence i, antenna array x and sample s (A arrays,
\* S samples per sequence), the real part of that sample at index
\* 2*((i*A + x)*S + s) and the imaginary part at the next index: within a
\* sequence, all samples of array 0, then all samples of array 1.
C17_SampleLayout ==
    (cv_io.written # <<>> /\ cv_io.written[1].filetype = "iqdat") =>
        \A recs \in {cv_io.written[1].records} :
        \A n \in DOMAIN SourceNames :
        \A g \in {cv_file.groups[SourceNames[n]]} :
        \A A \in {g.data_dimensions.data[1]} :
        \A S \in {g.data_dimensions.data[4]} :
        \A b \in DOMAIN g.beam_nums.data :
        \A data \in {recs[BeamsBefore(n) + b].data.val} :
            /\ Len(data) = 2 * g.num_sequences.data * A * S
            /\ \A i \in 0..(g.num_sequences.data - 1) :
               \A x \in 0..(A - 1) :
               \A s \in 0..(S - 1) :
                   /\ data[2 * ((i * A + x) * S + s) + 1] =
                          EmittedComponent(SourceSample(g, x, i, b - 1, s)[1],
                                           g.data_normalization_factor.data)
                   /\ data[2 * ((i * A + x) * S + s) + 2] =
                          EmittedComponent(SourceSample(g, x, i, b - 1, s)[2],
                                           g.data_normalization_factor.data)

\* The layout np.ravel(np.column_stack(arrays)) gives: within a sequence
\* the arrays alternate sample by sample, the sample s of array x being at
\* index 2*((i*S + s)*A + x)
EmittedSamplesInterleaved ==
    (cv_io.written # <<>> /\ cv_io.written[1].filetype = "iqdat") =>
        \A recs \in {cv_io.written[1].records} :
        \A n \in DOMAIN SourceNames :
        \A g \in {cv_file.groups[SourceNames[n]]} :
        \A A \in {g.data_dimensions.data[1]} :
        \A S \in {g.data_dimensions.data[4]} :
        \A b \in DOMAIN g.beam_nums.data :
        \A data \in {recs[BeamsBefore(n) + b].data.val} :
            /\ Len(data) = 2 * g.num_sequences.data * A * S
            /\ \A i \in 0..(g.num_sequences.data - 1) :
               \A x \in 0..(A - 1) :
               \A s \in 0..(S - 1) :
                   /\ data[2 * ((i * S + s) * A + x) + 1] =
                          EmittedComponent(SourceSample(g, x, i, b - 1, s)[1],
                                           g.data_normalization_factor.data)
                   /\ data[2 * ((i * S + s) * A + x) + 2] =
                          EmittedComponent(SourceSample(g, x, i, b - 1, s)[2],
                                           g.data_normalization_factor.data)

\* C18 as claimed: in every bfiq conversion that succeeds, for a source
\* record whose normalization factor is 1 and whose sample components lie
\* within the int16 range, each emitted int16 component equals the
\* component of the source sample it was made from.
C18_ScalingIdempotent ==
    (cv_io.written # <<>> /\ cv_io.written[1].filetype = "iqdat") =>
        \A recs \in {cv_io.written[1].records} :
        \A n \in DOMAIN SourceNames :
        \A g \in {cv_file.groups[SourceNames[n]]} :
            (/\ g.data_normalization_factor.data = 1
             /\ \A p \in DOMAIN g.data.data : \A c \in 1..2 :
                   g.data.data[p][c] \in -32768..32767)
            => \A A \in {g.data_dimensions.data[1]} :
               \A S \in {g.data_dimensions.data[4]} :
               \A b \in DOMAIN g.beam_nums.data :
               \A data \in {recs[BeamsBefore(n) + b].data.val} :
               \A i \in 0..(g.num_sequences.data - 1) :
               \A x \in 0..(A - 1) :
               \A s \in 0..(S - 1) :
               \A c \in 1..2 :
                   data[2 * ((i * S + s) * A + x) + c]
                       = SourceSample(g, x, i, b - 1, s)[c]

\* C18 as amended: the scaling leaves the samples as they are when the
\* normalization factor is 32767, the int16 maximum: for such a source
\* record with sample components within the int16 range, each emitted
\* int16 component equals the component of the source sample it was made
\* from.
C18_ScalingByInt16Max ==
    (cv_io.written # <<>> /\ cv_io.written[1].filetype = "iqdat") =>
        \A recs \in {cv_io.written[1].records} :
        \A n \in DOMAIN SourceNames :
        \A g \in {cv_file.groups[SourceNames[n]]} :
            (/\ g.data_normalization_factor.data = 32767
             /\ \A p \in DOMAIN g.data.data : \A c \in 1..2 :
                   g.data.data[p][c] \in -32768..32767)
            => \A A \in {g.data_dimensions.data[1]} :
               \A S \in {g.data_dimensions.data[4]} :
               \A b \in DOMAIN g.beam_nums.data :
               \A data \in {recs[BeamsBefore(n) + b].data.val} :
               \A i \in 0..(g.num_sequences.data - 1) :
               \A x \in 0..(A - 1) :
               \A s \in 0..(S - 1) :
               \A c \in 1..2 :
                   data[2 * ((i * S + s) * A + x) + c]
                       = SourceSample(g, x, i, b - 1, s)[c]

\* A converted bfiq record with normalization factor 32767, several
\* arrays, sequences and samples, whose emitted data begin with the
\* components of its first sample, which are not zero
C18_Witness ==
    /\ cv_io.written # <<>>
    /\ cv_io.written[1].filetype = "iqdat"
    /\ Len(SourceNames) >= 1
    /\ \E g \in {cv_file.groups[SourceNames[1]]} :
          /\ g.data_normalization_factor.data = 32767
          /\ g.data_dimensions.data[1] >= 2
          /\ g.data_dimensions.data[4] >= 2
          /\ g.num_sequences.data >= 2
          /\ Len(g.beam_nums.data) >= 1
          /\ g.data.data[1][1] # 0
          /\ cv_io.written[1].records[1].data.val[1] = g.data.data[1][1]
          /\ cv_io.written[1].records[1].data.val[2] = g.data.data[1][2]

\* The version tag has the form the conversions look for: 'v' first and
\* '.' third
TaggedVersion(hash) == Len(hash) >= 3 /\ hash[1] = "v" /\ hash[3] = "."

\* C19 as claimed: in every conversion that succeeds, the legacy records
\* made from a source record whose version tag is not of the form
\* v<major>.<minor> hold 255 in radar.revision.major and in
\* radar.revision.minor, which are int8 fields.
C19_UnknownVersionSentinel ==
    cv_io.written # <<>> =>
        \A recs \in {cv_io.written[1].records} :
        \A i \in DOMAIN SourceNames :
        \A g \in {cv_file.groups[SourceNames[i]]} :
            ~TaggedVersion(g.borealis_git_hash.data) =>
                \A b \in DOMAIN g.beam_nums.data :
                    /\ recs[BeamsBefore(i) + b].radar_revision_major.ty = "int8"
                    /\ recs[BeamsBefore(i) + b].radar_revision_minor.ty = "int8"
                    /\ recs[BeamsBefore(i) + b].radar_revision_major.val = 255
                    /\ recs[BeamsBefore(i) + b].radar_revision_minor.val = 255

\* The source records whose station code the station table lacks
UnknownStationNames ==
    {name \in DOMAIN cv_file.groups :
        cv_file.groups[name].station.data \notin DOMAIN code_to_stid}

\* C20 as claimed: a conversion of a file that holds a record whose
\* station code the station table lacks fails and hands no legacy records
\* to the writer, whatever the record's place in the file and however many
\* beams it has, none included.
C20_UnknownStationFatal ==
    (ConvertCalled /\ UnknownStationNames # {}) =>
        /\ cv_result.kind # "ok"
        /\ cv_io.written = <<>>

\* C20, amended: a conversion of a file that holds a record with at least
\* one beam whose station code the station table lacks fails and hands no
\* legacy records to the writer, whatever the record's place in the file;
\* and a conversion fails with the KeyError of the station lookup only at
\* such a record.
C20_UnknownStationWithBeams ==
    ConvertCalled =>
        /\ (\E name \in UnknownStationNames :
               Len(cv_file.groups[name].beam_nums.data) >= 1) =>
               /\ cv_result.kind # "ok"
               /\ cv_io.written = <<>>
        /\ cv_result.kind = "KeyError" =>
               /\ cv_result.record_name \in UnknownStationNames
               /\ Len(cv_file.groups[cv_result.record_name]
                          .beam_nums.data) >= 1
               /\ cv_io.written = <<>>

\* A conversion of a file of two records has failed with KeyError at the
\* second, whose station the table lacks, after a first record with beams
\* and a listed station
C20_Witness ==
    /\ ConvertCalled
    /\ Len(SourceNames) = 2
    /\ cv_file.groups[SourceNames[1]].station.data \in DOMAIN code_to_stid
    /\ Len(cv_file.groups[SourceNames[1]].beam_nums.data) >= 1
    /\ SourceNames[2] \in UnknownStationNames
    /\ cv_result.kind = "KeyError"
    /\ cv_result.record_name = SourceNames[2]
    /\ cv_io.written = <<>>

\* The number of beams of all source records
TotalBeams == BeamsBefore(Len(SourceNames) + 1)

\* C21: a write_to_dmap call that fails (unsupported pair of types, a
\* record refused by a predicate, an unlisted station, a file name without
\* a slice id, or any other error of the conversion) leaves the
\* converter's dmap_records as they were before the call and does not
\* call the legacy writer; and the legacy writer is called only by a call
\* that returns without error, once, with the converter's new dmap_records,
\* which hold one record per beam of every source record, no source record
\* being one a predicate refuses.
C21_ConvertAllOrNothing ==
    [][(cv.open /\ cv_result'.op = "write_to_dmap") =>
          /\ cv_result'.kind # "ok" =>
                 /\ cv'.dmap_records = cv.dmap_records
                 /\ cv_io'.written = <<>>
          /\ cv_io'.written # <<>> =>
                 /\ cv_result'.kind = "ok"
                 /\ Len(cv_io'.written) = 1
                 /\ cv_io'.written[1].records = cv'.dmap_records
                 /\ Len(cv'.dmap_records) = TotalBeams
                 /\ \A name \in DOMAIN cv_file.groups :
                        /\ ~PulseBlankingViolated(cv_file.groups[name])
                        /\ cv_result'.target = "iqdat" =>
                               ~PhaseOffsetNonZero(cv_file.groups[name])]_vars

\* A write_to_dmap call has failed on a converter that holds the records
\* of an earlier conversion, and holds them still
C21_Witness ==
    /\ cv.open
    /\ cv_result.op = "write_to_dmap"
    /\ cv_result.kind # "ok"
    /\ cv.dmap_records # <<>>
    /\ cv.dmap_records = cv_result.before
    /\ cv_io.written = <<>>

\* A version tag the parse indexes past its end: an empty one, or one that
\* starts with 'v' and has fewer than three characters, or fewer than four
\* with '.' the third
TagTooShort(hash) ==
    \/ Len(hash) = 0
    \/ hash[1] = "v" /\ Len(hash) < 3
    \/ hash[1] = "v" /\ hash[3] = "." /\ Len(hash) < 4

\* C27 as claimed: the version parse of neither conversion fails, whatever
\* the version tag: no conversion ends with an IndexError at a record
\* whose version tag is empty or is a short tag that starts with 'v'.
C27_VersionParsingNeverFails ==
    ConvertCalled =>
        \A name \in DOMAIN cv_file.groups :
            (/\ cv_result.record_name = name
             /\ TagTooShort(cv_file.groups[name].borealis_git_hash.data))
            => cv_result.kind # "IndexError"

\* A conversion has ended with an IndexError at a record whose version tag
\* is empty
EmptyTagFails ==
    /\ ConvertCalled
    /\ cv_result.kind = "IndexError"
    /\ cv_result.record_name \in DOMAIN cv_file.groups
    /\ cv_file.groups[cv_result.record_name].borealis_git_hash.data = <<>>

\* A conversion of a record tagged v1.10 has emitted a minor revision of 1
TwoDigitMinorCut ==
    /\ ConvertCalled
    /\ cv_io.written # <<>>
    /\ Len(SourceNames) = 1
    /\ cv_file.groups[SourceNames[1]].borealis_git_hash.data
           = <<"v", "1", ".", "1", "0">>
    /\ Len(cv_io.written[1].records) >= 1
    /\ cv_io.written[1].records[1].radar_revision_major.val = 1
    /\ cv_io.written[1].records[1].radar_revision_minor.val = 1

\* A reference conversion of the correlations of source record g.
\* ReferenceCopy is a copy of its own of the rescaled array of a key, in
\* which the alternate lag 0 (the last lag) has been put at lag 0 for the
\* last 10 ranges of beam b, and which nothing else writes.
ReferenceCopy(g, key, b) ==
    LET dims == g.correlation_dimensions.data
        norm == g.data_normalization_factor.data
    IN  [p \in DOMAIN g[key].data |->
            LET beam  == ((p - 1) \div (dims[2] * dims[3])) + 1
                range == (((p - 1) \div dims[3]) % dims[2]) + 1
                lag   == ((p - 1) % dims[3]) + 1
            IN  IF beam = b /\ lag = 1 /\ range > dims[2] - 10
                THEN ScaledBy(g[key].data[p + dims[3] - 1], norm)
                ELSE ScaledBy(g[key].data[p], norm)]

\* The power of the reference conversion, taken from one copy ...
ReferencePwr0(g, b) ==
    LET dims == g.correlation_dimensions.data
        copy == ReferenceCopy(g, "main_acfs", b)
    IN  [r \in 1..dims[2] |->
            ToFloat32(Magnitude(
                copy[((b - 1) * dims[2] + (r - 1)) * dims[3] + 1]))]

\* ... and its emitted array of a key, taken from another: the lags but
\* the last of every range of beam b
ReferenceEmitted(g, key, b) ==
    LET dims == g.correlation_dimensions.data
        copy == ReferenceCopy(g, key, b)
    IN  [j \in 1..(dims[2] * (dims[3] - 1)) |->
            LET r == ((j - 1) \div (dims[3] - 1)) + 1
                l == ((j - 1) % (dims[3] - 1)) + 1
                z == copy[((b - 1) * dims[2] + (r - 1)) * dims[3] + l]
            IN  <<ToFloat32(z[1]), ToFloat32(z[2])>>]

\* C28: in every rawacf conversion that succeeds, the pwr0, acfd and xcfd
\* of every legacy record are those of the reference conversion, which
\* makes the substitution for the power and the substitution for each
\* emitted array on copies of their own, one per beam: writing lag_zero and
\* this_correlation through views of the shared arrays, beam after beam,
\* gives no other value for any record, beam, range and lag.
C28_AliasingEquivalence ==
    (cv_io.written # <<>> /\ cv_io.written[1].filetype = "rawacf") =>
        \A i \in DOMAIN SourceNames :
        \A g \in {cv_file.groups[SourceNames[i]]} :
        \A b \in DOMAIN g.beam_nums.data :
        \A rec \in {cv_io.written[1].records[BeamsBefore(i) + b]} :
            /\ rec.pwr0.val = ReferencePwr0(g, b)
            /\ rec.acfd.val = ReferenceEmitted(g, "main_acfs", b)
            /\ rec.xcfd.val = ReferenceEmitted(g, "xcfs", b)

\* A converted rawacf record of two beams and more than 10 ranges: in the
\* legacy record of its second beam the substitution shows at the last
\* range, in the power and in both emitted arrays, and not at the first
C28_Witness ==
    /\ cv_io.written # <<>>
    /\ cv_io.written[1].filetype = "rawacf"
    /\ Len(SourceNames) >= 1
    /\ Len(cv_io.written[1].records) >= 2
    /\ \E g \in {cv_file.groups[SourceNames[1]]} :
       \E dims \in {g.correlation_dimensions.data} :
       \E rec \in {cv_io.written[1].records[2]} :
       \E last \in {(dims[2] - 1) * (dims[3] - 1) + 1} :
       \E source \in {(dims[2] + dims[2] - 1) * dims[3] + 1} :
           /\ Len(g.beam_nums.data) = 2
           /\ dims[2] > 10
           /\ rec.acfd.val[last]
                  # ScaledBy(g.main_acfs.data[source],
                             g.data_normalization_factor.data)
           /\ rec.xcfd.val[last]
                  # ScaledBy(g.xcfs.data[source],
                             g.data_normalization_factor.data)
           /\ rec.pwr0.val[dims[2]]
                  # ToFloat32(Magnitude(ScaledBy(g.main_acfs.data[source],
                                  g.data_normalization_factor.data)))
           /\ rec.acfd.val[1]
                  = ScaledBy(g.main_acfs.data[dims[2] * dims[3] + 1],
                             g.data_normalization_factor.data)

\* A base name with 'dmap' in the place of every 'hdf5'
DmapName(name) ==
    [i \in DOMAIN name |-> IF name[i] = "hdf5" THEN "dmap" ELSE name[i]]

\* C30 as claimed: bfiq2darniqdat and rawacf2darnrawacf called without a
\* dmap_filename take an output path in the directory of the input file
\* whose base name is the input's with 'dmap' in the place of 'hdf5', also
\* for an input path that is a bare file name; for an input base name
\* without 'hdf5' that path is the input path, and the call is refused
\* before the input is read and before anything is written.
C30_DefaultOutputPath ==
    [][(Bfiq2DarnIqdat(<<>>) \/ Rawacf2DarnRawacf(<<>>)) =>
          /\ dirname(cv_result'.dmap_filename) = dirname(cv_file.path)
          /\ basename(cv_result'.dmap_filename)
                 = DmapName(basename(cv_file.path))
          /\ (\A i \in DOMAIN basename(cv_file.path) :
                  basename(cv_file.path)[i] # "hdf5") =>
                 /\ cv_result'.dmap_filename = cv_file.path
                 /\ cv_result'.kind # "ok"
                 /\ ~cv_io'.read
                 /\ cv_io'.written = <<>>]_vars

\* The same for the input paths that have a directory component
DefaultOutputPathInDirectory ==
    [][(/\ Bfiq2DarnIqdat(<<>>) \/ Rawacf2DarnRawacf(<<>>)
        /\ \E i \in DOMAIN cv_file.path : cv_file.path[i] = "/") =>
          /\ dirname(cv_result'.dmap_filename) = dirname(cv_file.path)
          /\ basename(cv_result'.dmap_filename)
                 = DmapName(basename(cv_file.path))
          /\ (\A i \in DOMAIN basename(cv_file.path) :
                  basename(cv_file.path)[i] # "hdf5") =>
                 /\ cv_result'.dmap_filename = cv_file.path
                 /\ cv_result'.kind # "ok"
                 /\ ~cv_io'.read
                 /\ cv_io'.written = <<>>]_vars

\* A bare file name without 'hdf5' given to an entry point without a
\* dmap_filename: the input was read and the legacy writer was handed
\* another path than the input's
BareNameNotRefused ==
    /\ cv_result.op \in {"bfiq2darniqdat", "rawacf2darnrawacf"}
    /\ \A i \in DOMAIN cv_file.path : cv_file.path[i] \notin {"/", "hdf5"}
    /\ cv_result.dmap_filename = <<"/">> \o cv_file.path
    /\ cv_io.read
    /\ cv_io.written # <<>>

====
